---- MODULE Spec2Model ----
(***************************************************************************)
(* Model of src/server.ts (ai-daily): the digest orchestrator runDigest    *)
(* with its single-flight flag, the persisted seen-link ledger, article    *)
(* store and run history, the maintenance pass, and the resilient LLM      *)
(* invoker callLLM.                                                        *)
(*                                                                         *)
(* JavaScript runs one synchronous segment at a time: an action of this    *)
(* model is the code between two awaits of one async function.             *)
(***************************************************************************)
EXTENDS Integers, Sequences, FiniteSets, TLC

VARIABLES
    isDigestRunning,   \* server.ts:707  module-level flag
    config,            \* data/config.json as loadJSON(CONFIG_FILE) returns it
    seenFile,          \* data/seen.json: the persisted ledger, oldest first
    articlesFile,      \* data/articles.json: id -> Article
    historyFile,       \* data/history.json: newest first
    run,               \* one record per runDigest invocation (its locals)
    nextId,            \* generateId() and Date.now(): the next fresh id, also
                       \* the logical time at which the next article is created
    triggers,          \* number of runDigest invocations issued so far
    faulted,           \* an exception was thrown inside a run (the model
                       \* explores behaviours with at most one)
    llm,               \* one callLLM invocation (its locals and its attempts)
    tr,                \* one Config object and the timeouts callLLM was given
    page,              \* one formatFullTextMessages call: its input and output
    cb,                \* the handleTelegramCallback invocations and the channel
    sched,             \* setupSchedule's timer, its captured config, the clock
    agg                \* one fetchAllFeeds call: its sources and their results

\* the state added for the translation, pagination, callback and scheduler
\* specifications; the orchestrator and the invoker leave it alone
extVars == <<tr, page, cb, sched, agg>>

vars == <<isDigestRunning, config, seenFile, articlesFile, historyFile, run,
          nextId, triggers, faulted, llm, extVars>>

orchVars == <<isDigestRunning, config, seenFile, articlesFile, historyFile, run,
              nextId, triggers, faulted, extVars>>

\* value of a part of the state that a specification does not exercise
Unused == <<>>

----------------------------------------------------------------------------
(* Bounds of the model *)

MaxTriggers == 2      \* runDigest invocations explored
MaxItems == 2         \* items one fetchAllFeeds returns
MaxRetriesCfg == 2    \* largest configured llmSettings.maxRetries

Runs == 1..MaxTriggers         \* one frame per runDigest invocation
FeedLinks == {"a", "b"}        \* RSSItem.link values the feeds carry
OldLinks == <<"x", "y">>       \* links pushed before the server was started
\* history.json of a server that has pushed before: the entry of an earlier run
OldHistory == <<[count |-> 1, articles |-> <<0>>]>>
Scores == {4, 6, 9}            \* ScoreResult.score values an LLM answer carries
PushCounts == {1, 2}           \* config.telegram.pushCount values
TopNs == {1}                   \* config.rss.topN values

(* Program constants.  MAX_SEEN (5000 in the source) and the history cap    *)
(* (30 in the source) are scaled down so that the overflow cases are reached *)
MAX_SEEN == 2
HISTORY_KEEP == 2
SCORE_THRESHOLD == 6

----------------------------------------------------------------------------
(* Helpers on sequences *)

Range(s) == {s[i] : i \in 1..Len(s)}

\* Array.prototype.slice(0, n) for n >= 0
SliceHead(s, n) == SubSeq(s, 1, IF n < Len(s) THEN n ELSE Len(s))

\* Array.prototype.slice(-n) for n > 0
SliceTail(s, n) == IF Len(s) <= n THEN s ELSE SubSeq(s, Len(s) - n + 1, Len(s))

SeqsUpTo(S, n) == UNION {[1..k -> S] : k \in 0..n}

----------------------------------------------------------------------------
(* Resilient invoker: callLLM                                               *)

\* settings.maxRetries || 2
EffectiveMaxRetries(m) == IF m = 0 THEN 2 ELSE m

\* what one callLLMOnce against an endpoint can do: resolve (TRUE) or throw
AttemptOutcomes(up) ==
    IF up = "fail" THEN {FALSE} ELSE IF up = "ok" THEN {TRUE} ELSE BOOLEAN

\* mutant: the useBackupOnFail setting is not consulted
UseBackup_IgnoresSetting(cfg) == cfg.backupKey

\* if (settings.useBackupOnFail && config.llmBackup?.apiKey)
UseBackup(cfg) == cfg.useBackupOnFail /\ cfg.backupKey

\* mutant: the same delay after every failed attempt
BackoffMs_Flat(i) == 1000

\* await new Promise(r => setTimeout(r, 1000 * (i + 1)))
BackoffMs(i) == 1000 * (i + 1)

LLMConfigs ==
    [primaryKey : BOOLEAN, backupKey : BOOLEAN, useBackupOnFail : BOOLEAN,
     maxRetries : 0..MaxRetriesCfg]

Behaviours == {"fail", "ok", "any"}

LLMIdle ==
    [pc |-> "idle",
     cfg |-> [primaryKey |-> FALSE, backupKey |-> FALSE,
              useBackupOnFail |-> FALSE, maxRetries |-> 0],
     primaryUp |-> "fail", backupUp |-> "fail",
     i |-> 0, log |-> <<>>, waits |-> <<>>, result |-> "none"]

\* the code after the primary loop: the backup loop, or the final throw
AfterPrimary(l) ==
    IF UseBackup(l.cfg)
    THEN [l EXCEPT !.pc = "backup", !.i = 0]
    ELSE [l EXCEPT !.pc = "done", !.result = "exhausted"]

\* callLLM entered: settings read, the primary loop entered or skipped
LLMBegin ==
    /\ llm.pc = "start"
    /\ llm' = IF llm.cfg.primaryKey
              THEN [llm EXCEPT !.pc = "primary", !.i = 0]
              ELSE AfterPrimary(llm)
    /\ UNCHANGED orchVars

\* one iteration of the primary loop
PrimaryAttempt ==
    /\ llm.pc = "primary"
    /\ \E ok \in AttemptOutcomes(llm.primaryUp) :
         LET logged == [llm EXCEPT !.log = Append(@, [ep |-> "primary", ok |-> ok])]
         IN llm' =
              IF ok THEN [logged EXCEPT !.pc = "done", !.result = "primary"]
              ELSE IF llm.i < EffectiveMaxRetries(llm.cfg.maxRetries)
                   THEN [logged EXCEPT !.waits = Append(@, BackoffMs(llm.i)),
                                       !.i = @ + 1]
                   ELSE AfterPrimary(logged)
    /\ UNCHANGED orchVars

\* one iteration of the backup loop
BackupAttempt ==
    /\ llm.pc = "backup"
    /\ \E ok \in AttemptOutcomes(llm.backupUp) :
         LET logged == [llm EXCEPT !.log = Append(@, [ep |-> "backup", ok |-> ok])]
         IN llm' =
              IF ok THEN [logged EXCEPT !.pc = "done", !.result = "backup"]
              ELSE IF llm.i < EffectiveMaxRetries(llm.cfg.maxRetries)
                   THEN [logged EXCEPT !.waits = Append(@, BackoffMs(llm.i)),
                                       !.i = @ + 1]
                   ELSE [logged EXCEPT !.pc = "done", !.result = "exhausted"]
    /\ UNCHANGED orchVars

NextLLM == LLMBegin \/ PrimaryAttempt \/ BackupAttempt

----------------------------------------------------------------------------
(* Persistence helpers and the maintenance pass                             *)

\* articles[id] = article
PutArticle(arts, a) ==
    [x \in DOMAIN arts \cup {a.id} |-> IF x = a.id THEN a ELSE arts[x]]

\* cleanupSeenData: seen.slice(-MAX_SEEN) written back when seen is too long
CleanupSeen(seen) == IF Len(seen) > MAX_SEEN THEN SliceTail(seen, MAX_SEEN) ELSE seen

\* cleanupArticles: keeps the articles with createdAt > cutoff, where cutoff
\* is Date.now() minus seven days
CleanupArticles(arts, cutoff) ==
    LET kept == {id \in DOMAIN arts : arts[id].createdAt > cutoff}
    IN [id \in kept |-> arts[id]]

\* mutant: the entry is pushed at the end instead of unshifted
PrependHistory_Appends(history, entry) == SliceHead(history \o <<entry>>, HISTORY_KEEP)

\* history.unshift(entry); history.slice(0, 30)
PrependHistory(history, entry) == SliceHead(<<entry>> \o history, HISTORY_KEEP)

----------------------------------------------------------------------------
(* Digest orchestrator: runDigest                                           *)

\* mutant: the guard is missing
SingleFlightAdmits_Always(flag) == TRUE

\* if (isDigestRunning) return {...}: the guard lets the invocation through
SingleFlightAdmits(flag) == ~flag

\* mutant: the rejecting return stands inside the try, so the finally clears
\* the flag of the run that is active
FlagAfterReject_Clears(flag) == FALSE

\* the rejecting return stands before the try: the finally does not run
FlagAfterReject(flag) == flag

\* !seen.includes(item.link)
IsNew(seen, link) == link \notin Range(seen)

\* items.filter((item) => !seen.includes(item.link))
NewItems(items, seen) == SelectSeq(items, LAMBDA l : IsNew(seen, l))

\* mutant: every new item is scored
ToProcess_Uncapped(newItems, topN) == newItems

\* newItems.slice(0, config.rss.topN * 2)
ToProcess(newItems, topN) == SliceHead(newItems, topN * 2)

\* if (result && result.score >= 6)
Admitted(result) == result.ok /\ result.score >= SCORE_THRESHOLD

\* scored.sort((a, b) => b.result.score - a.result.score): stable, descending
InsertByScore(sorted, x) ==
    LET p == Cardinality({i \in 1..Len(sorted) : sorted[i].score >= x.score})
    IN SubSeq(sorted, 1, p) \o <<x>> \o SubSeq(sorted, p + 1, Len(sorted))

RECURSIVE SortByScore(_)
SortByScore(s) ==
    IF s = <<>> THEN <<>>
    ELSE InsertByScore(SortByScore(SubSeq(s, 1, Len(s) - 1)), s[Len(s)])

\* mutant: the candidates are truncated without being sorted
TopArticles_Unsorted(scored, pushCount) == SliceHead(scored, pushCount)

\* scored.sort(...); scored.slice(0, config.telegram.pushCount)
TopArticles(scored, pushCount) == SliceHead(SortByScore(scored), pushCount)

\* mutant: the pushed link is not recorded
MarkSeen_Forgets(seen, link) == seen

\* seen.push(item.link)
MarkSeen(seen, link) == Append(seen, link)

ScoreResults ==
    {[ok |-> FALSE, score |-> 0]} \cup {[ok |-> TRUE, score |-> s] : s \in Scores}

NoOutcome == [kind |-> "none", success |-> FALSE, count |-> 0]
AlreadyRunning == [kind |-> "running", success |-> FALSE, count |-> 0]
ConfigError == [kind |-> "config", success |-> FALSE, count |-> 0]
NoNewArticles == [kind |-> "nonew", success |-> TRUE, count |-> 0]
\* mutant: runDigest has no catch, the failure leaves it as a rejection
RunError_Uncaught == [kind |-> "thrown", success |-> FALSE, count |-> 0]

\* catch (error) { return { success: false, message, count: 0 } }
RunError == [kind |-> "error", success |-> FALSE, count |-> 0]
RunSuccess(n) == [kind |-> "ok", success |-> TRUE, count |-> n]

NoCfg == [apiKey |-> FALSE, pushCount |-> 0, topN |-> 0]

\* mutant: the flag is cleared before the success return only, there is no
\* finally
FlagAfterReturn_SuccessOnly(outcome) == outcome.kind # "ok"

\* finally { isDigestRunning = false }: runs on every return out of the try
FlagAfterReturn(outcome) == FALSE

\* The locals of one runDigest invocation.  results is the scoring outcome of
\* each batch item in turn (what the loop logs); a scored entry carries idx,
\* the position of its item in toProcess (the identity of the item object).
IdleFrame ==
    [pc |-> "idle", cfg |-> NoCfg, seen |-> <<>>, articles |-> <<>>,
     toProcess |-> <<>>, results |-> <<>>, scored |-> <<>>, topArticles |-> <<>>,
     newArticles |-> <<>>, outcome |-> NoOutcome]

\* the invocation has returned: its locals are gone, its outcome is with the caller
Returned(o) == [IdleFrame EXCEPT !.pc = "done", !.outcome = o]

ActivePcs == {"fetch", "score", "select", "push", "persist"}
Active(r) == run[r].pc \in ActivePcs

\* mutant: the credential is not looked at before the fetch
HasCredential_Unchecked(cfg) == TRUE

\* if (!config.llm.apiKey) return { success: false, ..., count: 0 }
HasCredential(cfg) == cfg.apiKey

\* runDigest from its entry to its first await (or its early return), as far
\* as the orchestrator's state goes
RunDigestEntered(r) ==
    /\ triggers < MaxTriggers
    /\ r = triggers + 1
    /\ triggers' = triggers + 1
    /\ IF ~SingleFlightAdmits(isDigestRunning)
       THEN /\ run' = [run EXCEPT ![r] = Returned(AlreadyRunning)]
            /\ isDigestRunning' = FlagAfterReject(isDigestRunning)
       ELSE IF ~HasCredential(config)
       THEN /\ run' = [run EXCEPT ![r] = Returned(ConfigError)]
            /\ isDigestRunning' = FlagAfterReturn(ConfigError)
       ELSE /\ run' = [run EXCEPT ![r] =
                         [IdleFrame EXCEPT !.pc = "fetch", !.cfg = config,
                                           !.seen = seenFile,
                                           !.articles = articlesFile]]
            /\ isDigestRunning' = TRUE
    /\ UNCHANGED <<config, seenFile, articlesFile, historyFile, nextId, faulted, llm>>

\* a call of runDigest() that touches nothing else
EnterRunDigest(r) == RunDigestEntered(r) /\ UNCHANGED extVars

\* setupSchedule's timer callback on a minute that matches the pattern: it
\* calls runDigest() and does not await it.  Whether the timer is set and
\* whether the wall clock matches is left to the environment.
ScheduleTick(r) == EnterRunDigest(r)

\* POST /api/run: it calls runDigest() and answers with its outcome
ManualRun(r) == EnterRunDigest(r)

\* await fetchAllFeeds(...) resolves with one of feeds; dedup; the batch to
\* score is cut
RunFetchedFrom(r, feeds) ==
    /\ run[r].pc = "fetch"
    /\ \E items \in feeds :
         LET newItems == NewItems(items, run[r].seen)
         IN IF newItems = <<>>
            THEN /\ run' = [run EXCEPT ![r] = Returned(NoNewArticles)]
                 /\ isDigestRunning' = FlagAfterReturn(NoNewArticles)
            ELSE /\ run' = [run EXCEPT ![r].pc = "score",
                                       ![r].toProcess =
                                           ToProcess(newItems, run[r].cfg.topN)]
                 /\ UNCHANGED isDigestRunning
    /\ UNCHANGED <<config, seenFile, articlesFile, historyFile, nextId, triggers, faulted, llm, extVars>>

RunFetched(r) == RunFetchedFrom(r, SeqsUpTo(FeedLinks, MaxItems))

\* mutant: a failed scoring call ends the loop
AfterScoring_StopsOnFailure(i, n, result) ==
    IF i = n \/ ~result.ok THEN "select" ELSE "score"

\* for (let i = 0; i < toProcess.length; i++): a null result and a caught
\* throw are logged and the loop goes on
AfterScoring(i, n, result) == IF i = n THEN "select" ELSE "score"

\* one iteration of the scoring loop
RunScored(r) ==
    /\ run[r].pc = "score"
    /\ LET i == Len(run[r].results) + 1
           link == run[r].toProcess[i]
       IN \E result \in ScoreResults :
            run' = [run EXCEPT
                      ![r].results = Append(@, result),
                      ![r].scored =
                          IF Admitted(result)
                          THEN Append(@, [idx |-> i, link |-> link,
                                          score |-> result.score])
                          ELSE @,
                      ![r].pc = AfterScoring(i, Len(run[r].toProcess), result)]
    /\ UNCHANGED <<isDigestRunning, config, seenFile, articlesFile, historyFile,
                   nextId, triggers, faulted, llm, extVars>>

\* the sort and the truncation after the scoring loop
RunSelected(r) ==
    /\ run[r].pc = "select"
    /\ LET top == TopArticles(run[r].scored, run[r].cfg.pushCount)
       IN run' = [run EXCEPT ![r].topArticles = top,
                             ![r].pc = IF top = <<>> THEN "persist" ELSE "push"]
    /\ UNCHANGED <<isDigestRunning, config, seenFile, articlesFile, historyFile,
                   nextId, triggers, faulted, llm, extVars>>

\* one iteration of the push loop: article built, sent, recorded, link marked
RunPushed(r) ==
    /\ run[r].pc = "push"
    /\ LET k == Len(run[r].newArticles) + 1
           cand == run[r].topArticles[k]
           article == [id |-> nextId, link |-> cand.link,
                       score |-> cand.score, createdAt |-> nextId,
                       translatedContent |-> 0, fullTextMsgId |-> 0]
       IN run' = [run EXCEPT
                    ![r].articles = PutArticle(@, article),
                    ![r].seen = MarkSeen(@, cand.link),
                    ![r].newArticles = Append(@, article),
                    ![r].pc = IF k = Len(run[r].topArticles) THEN "persist" ELSE "push"]
    /\ nextId' = nextId + 1
    /\ UNCHANGED <<isDigestRunning, config, seenFile, articlesFile, historyFile,
                   triggers, faulted, llm, extVars>>

\* formatSummaryMessage throws in the push loop (result.keywords missing):
\* caught by the catch of runDigest, the finally clears the flag
RunPushThrows(r) ==
    /\ run[r].pc = "push"
    /\ ~faulted
    /\ faulted' = TRUE
    /\ run' = [run EXCEPT ![r] = Returned(RunError)]
    /\ isDigestRunning' = FlagAfterReturn(RunError)
    /\ UNCHANGED <<config, seenFile, articlesFile, historyFile, nextId, triggers, llm, extVars>>

HistoryEntry(newArticles) ==
    [count |-> Len(newArticles),
     articles |-> [i \in 1..Len(newArticles) |-> newArticles[i].id]]

\* the three saves, the return and the finally; failAt is the saveJSON call
\* whose writeFileSync throws, if any
RunPersisted(r, failAt) ==
    /\ run[r].pc = "persist"
    /\ failAt # "none" => ~faulted
    /\ faulted' = (faulted \/ failAt # "none")
    /\ articlesFile' = IF failAt = "articles" THEN articlesFile ELSE run[r].articles
    /\ seenFile' = IF failAt \in {"articles", "seen"} THEN seenFile ELSE run[r].seen
    /\ historyFile' = IF failAt = "none"
                      THEN PrependHistory(historyFile, HistoryEntry(run[r].newArticles))
                      ELSE historyFile
    /\ run' = [run EXCEPT ![r] =
                 Returned(IF failAt = "none"
                          THEN RunSuccess(Len(run[r].newArticles))
                          ELSE RunError)]
    /\ isDigestRunning' = FlagAfterReturn(IF failAt = "none"
                                          THEN RunSuccess(Len(run[r].newArticles))
                                          ELSE RunError)
    /\ UNCHANGED <<config, nextId, triggers, llm, extVars>>

RunPersistOk(r) == RunPersisted(r, "none")
RunPersistFails(r) == \E failAt \in {"articles", "seen", "history"} : RunPersisted(r, failAt)

\* the daily maintenance timer, on a tick in hour 3 of a day not yet cleaned.
\* The wall clock is the environment's: cutoff is the logical time that lies
\* seven days back when the tick fires.
MaintenanceTick ==
    /\ \E cutoff \in {0} \cup {articlesFile[id].createdAt : id \in DOMAIN articlesFile} :
         articlesFile' = CleanupArticles(articlesFile, cutoff)
    /\ seenFile' = CleanupSeen(seenFile)
    /\ UNCHANGED <<isDigestRunning, config, historyFile, run, nextId, triggers, faulted, llm, extVars>>

Configs == [apiKey : BOOLEAN, pushCount : PushCounts, topN : TopNs]

Init ==
    /\ isDigestRunning = FALSE
    /\ config \in Configs
    /\ \/ seenFile = <<>> /\ historyFile = <<>>
       \/ seenFile = OldLinks /\ historyFile = OldHistory
    /\ articlesFile = <<>>
    /\ run = [r \in Runs |-> IdleFrame]
    /\ nextId = 1
    /\ triggers = 0
    /\ faulted = FALSE
    /\ llm = LLMIdle
    /\ tr = Unused /\ page = Unused /\ cb = Unused /\ sched = Unused /\ agg = Unused

Next ==
    \/ \E r \in Runs : ScheduleTick(r)
    \/ \E r \in Runs : ManualRun(r)
    \/ \E r \in Runs : RunFetched(r)
    \/ \E r \in Runs : RunScored(r)
    \/ \E r \in Runs : RunSelected(r)
    \/ \E r \in Runs : RunPushed(r)
    \/ \E r \in Runs : RunPushThrows(r)
    \/ \E r \in Runs : RunPersistOk(r)
    \/ \E r \in Runs : RunPersistFails(r)
    \/ MaintenanceTick

Spec == Init /\ [][Next]_vars

InitLLM ==
    /\ isDigestRunning = FALSE
    /\ config = NoCfg
    /\ seenFile = <<>>
    /\ articlesFile = <<>>
    /\ historyFile = <<>>
    /\ run = [r \in Runs |-> IdleFrame]
    /\ nextId = 1
    /\ triggers = 0
    /\ faulted = FALSE
    /\ \E cfg \in LLMConfigs, p \in Behaviours, b \in Behaviours :
         llm = [LLMIdle EXCEPT !.pc = "start", !.cfg = cfg,
                               !.primaryUp = p, !.backupUp = b]
    /\ tr = Unused /\ page = Unused /\ cb = Unused /\ sched = Unused /\ agg = Unused

SpecLLM == InitLLM /\ [][NextLLM]_vars

----------------------------------------------------------------------------
(* Claims about the digest orchestrator, checked under Spec                 *)

ActiveRuns == {r \in Runs : Active(r)}

\* C1: at most one digest run is in progress at any time, under any
\* interleaving of scheduler ticks and manual run triggers.
C1_SingleFlight == Cardinality(ActiveRuns) <= 1

\* C1 witness: a run is in its push loop and a trigger issued meanwhile is back
C1_Witness ==
    \E r \in Runs, q \in Runs :
        /\ run[r].pc = "push"
        /\ q > r /\ run[q].pc = "done"

\* C2: a trigger issued while a run executes returns in the same step with the
\* 'already running' outcome (count 0), leaves the active run, the flag and
\* the persisted state alone, and a returned invocation never runs later.
C2_RejectedImmediately ==
    [][\A r \in Runs :
          /\ (isDigestRunning /\ triggers' = triggers + 1 /\ r = triggers + 1)
               => /\ run'[r] = Returned(AlreadyRunning)
                  /\ \A q \in Runs \ {r} : run'[q] = run[q]
                  /\ Cardinality(ActiveRuns) = 1
                  /\ isDigestRunning'
                  /\ UNCHANGED <<seenFile, articlesFile, historyFile, nextId>>
          /\ run[r].pc = "done" => run'[r] = run[r]
          /\ (Active(r) /\ run'[r] # run[r]) => isDigestRunning
      ]_vars

\* C2 witness: a run has completed with articles pushed, and a trigger issued
\* while it was executing came back 'already running'
C2_Witness ==
    \E r \in Runs, q \in Runs :
        /\ run[r].outcome.kind = "ok" /\ run[r].outcome.count >= 1
        /\ q > r /\ run[q].outcome = AlreadyRunning

\* C3: in every reachable state the persisted ledger holds at most MAX_SEEN
\* entries (evictions drop the oldest entries and keep the order of the rest).
C3_LedgerWithinCapacity == Len(seenFile) <= MAX_SEEN

\* invocation r pushes an article with link L in this step
PushesLink(r, L) ==
    /\ run[r].pc = "push"
    /\ Len(run'[r].newArticles) = Len(run[r].newArticles) + 1
    /\ run'[r].newArticles[Len(run'[r].newArticles)].link = L

\* C4: once a link is marked seen (it is in the ledger the run works on, which
\* holds the persisted ledger as loaded and the links marked in this run), no
\* article with that link is created or pushed again.
C4_NoRepushOfSeenLink ==
    [][\A r \in Runs, L \in FeedLinks :
          PushesLink(r, L) => IsNew(run[r].seen, L)]_vars

\* C5: in a run the ledger grows by exactly the link of each article pushed,
\* once per article, and only for a candidate that was scored at or above the
\* threshold and survived the truncation; the ledger the run persists is that
\* ledger.
C5_MarkSeenOncePerPushed ==
    [][\A r \in Runs :
          /\ (Active(r) /\ run'[r].pc \in ActivePcs) =>
               LET n == Len(run[r].newArticles)
                   grew == Len(run'[r].newArticles) - n
               IN /\ grew \in {0, 1}
                  /\ Len(run'[r].seen) - Len(run[r].seen) = grew
                  /\ grew = 0 => run'[r].seen = run[r].seen
                  /\ grew = 1 =>
                       LET a == run'[r].newArticles[n + 1]
                           cand == run[r].topArticles[n + 1]
                       IN /\ run'[r].seen = Append(run[r].seen, a.link)
                          /\ a.link = cand.link
                          /\ run[r].toProcess[cand.idx] = a.link
                          /\ run[r].results[cand.idx].ok
                          /\ run[r].results[cand.idx].score >= SCORE_THRESHOLD
                          /\ n + 1 <= run[r].cfg.pushCount
                          /\ \A j \in 1..n : run[r].topArticles[j].idx # cand.idx
          /\ (run[r].pc = "persist" /\ seenFile' # seenFile /\ run'[r] # run[r])
               => seenFile' = run[r].seen
      ]_vars

\* C5 witness: two candidates were admitted, the push count cut one off, and
\* the one article pushed has its link at the end of the run's ledger
C5_Witness ==
    \E r \in Runs :
        /\ run[r].pc = "persist"
        /\ Len(run[r].scored) = 2 /\ Len(run[r].newArticles) = 1
        /\ run[r].seen[Len(run[r].seen)] = run[r].newArticles[1].link

\* C6: every article of a run has score >= 6, the articles are in
\* non-increasing score order, and they are at most pushCount many.
C6_Selection ==
    /\ \A r \in Runs :
         LET a == run[r].newArticles
         IN /\ \A i \in 1..Len(a) : a[i].score >= 6
            /\ \A i \in 1..Len(a), j \in 1..Len(a) : i < j => a[i].score >= a[j].score
            /\ Active(r) => Len(a) <= run[r].cfg.pushCount
            /\ run[r].outcome.count <= config.pushCount
    /\ \A id \in DOMAIN articlesFile : articlesFile[id].score >= 6

\* C6 witness: the item scored 6 came before the item scored 9 in the batch,
\* and the run pushed the 9 first
C6_Witness ==
    \E r \in Runs :
        /\ Len(run[r].results) = 2
        /\ run[r].results[1].score = 6 /\ run[r].results[2].score = 9
        /\ Len(run[r].newArticles) = 2
        /\ run[r].newArticles[1].score = 9 /\ run[r].newArticles[2].score = 6

----------------------------------------------------------------------------
(* Claims about the resilient invoker, checked under SpecLLM                *)

NumAttempts(ep) == Cardinality({k \in 1..Len(llm.log) : llm.log[k].ep = ep})

AllFailed(ep) == \A k \in 1..Len(llm.log) : llm.log[k].ep = ep => ~llm.log[k].ok

\* the primary loop has been left (or was never entered)
PrimaryOver == llm.pc \in {"backup", "done"}

\* C7: with a primary credential and any configured maxRetries >= 0, a call
\* makes at most maxRetries + 1 primary attempts, and exactly maxRetries + 1
\* once every primary attempt has failed.
C7_PrimaryAttemptBound ==
    llm.cfg.primaryKey =>
        /\ NumAttempts("primary") <= llm.cfg.maxRetries + 1
        /\ (PrimaryOver /\ AllFailed("primary")
              => NumAttempts("primary") = llm.cfg.maxRetries + 1)

\* C8: the backup endpoint is attempted if and only if all primary attempts
\* have failed, backup fallback is enabled and a backup credential is
\* configured; no backup attempt precedes a primary attempt, and no attempt
\* follows the first successful attempt.
C8_BackupOnlyAfterPrimary ==
    /\ \A k \in 1..Len(llm.log) :
         llm.log[k].ep = "backup" =>
            /\ llm.cfg.useBackupOnFail /\ llm.cfg.backupKey
            /\ PrimaryOver /\ AllFailed("primary")
            /\ llm.cfg.primaryKey =>
                 NumAttempts("primary") = EffectiveMaxRetries(llm.cfg.maxRetries) + 1
            /\ \A j \in (k + 1)..Len(llm.log) : llm.log[j].ep = "backup"
    /\ \A k \in 1..(Len(llm.log) - 1) : ~llm.log[k].ok
    /\ (llm.pc = "done" /\ AllFailed("primary")
          /\ llm.cfg.useBackupOnFail /\ llm.cfg.backupKey)
         => NumAttempts("backup") >= 1

\* C8 witness: a finished call that failed over and was answered by the backup
C8_Witness ==
    /\ llm.pc = "done" /\ llm.result = "backup"
    /\ NumAttempts("primary") >= 1 /\ NumAttempts("backup") >= 2

\* C9: a primary that always fails and an enabled, credentialed backup that
\* succeeds: the call succeeds with the backup's response after exactly
\* maxRetries + 1 primary attempts followed by at least one backup attempt.
C9_FailoverAfterConfiguredRetries ==
    (/\ llm.pc = "done"
     /\ llm.cfg.primaryKey /\ llm.primaryUp = "fail"
     /\ llm.cfg.useBackupOnFail /\ llm.cfg.backupKey /\ llm.backupUp = "ok")
    => /\ llm.result = "backup"
       /\ NumAttempts("primary") = llm.cfg.maxRetries + 1
       /\ NumAttempts("backup") >= 1
       /\ llm.log[Len(llm.log)] = [ep |-> "backup", ok |-> TRUE]

\* the endpoints the call may use under its configuration
Usable(ep) ==
    IF ep = "primary" THEN llm.cfg.primaryKey
    ELSE llm.cfg.useBackupOnFail /\ llm.cfg.backupKey

\* C10: with primary and backup both always failing (or the backup
\* unconfigured or disabled) the call ends with the 'all providers exhausted'
\* error and never makes more than maxRetries + 1 attempts per usable endpoint.
C10_ExhaustionWithinBound ==
    (/\ llm.primaryUp = "fail"
     /\ llm.backupUp = "fail" \/ ~Usable("backup"))
    => /\ llm.pc = "done" => llm.result = "exhausted"
       /\ \A ep \in {"primary", "backup"} :
            NumAttempts(ep) <= IF Usable(ep) THEN llm.cfg.maxRetries + 1 ELSE 0

----------------------------------------------------------------------------
(* Translation timeout: translateFullText, and the timeout callLLM reads    *)

MaxCalls == 3         \* callLLM invocations explored on one Config object

\* llmSettings.timeout values of a config; 0 is also what an unset timeout
\* behaves as under `settings.timeout || 60000`
Timeouts == {0, 30000, 60000, 90000, 120000}

FALLBACK_TIMEOUT == 60000
MIN_TRANSLATE_TIMEOUT == 120000
DEFAULT_TIMEOUT == 120000

Max(a, b) == IF a >= b THEN a ELSE b

\* DEFAULT_CONFIG.llmSettings
DEFAULT_LLM_SETTINGS == [present |-> TRUE, timeout |-> DEFAULT_TIMEOUT]

\* a Config whose llmSettings is missing
NoSettings == [present |-> FALSE, timeout |-> 0]

TimeoutConfigs ==
    {[llmSettings |-> st] :
        st \in {NoSettings} \cup {[present |-> TRUE, timeout |-> t] : t \in Timeouts}}

\* config.llmSettings || DEFAULT_CONFIG.llmSettings
Settings(cfg) == IF cfg.llmSettings.present THEN cfg.llmSettings ELSE DEFAULT_LLM_SETTINGS

\* callLLM: const timeout = settings.timeout || 60000
CallTimeout(cfg) ==
    IF Settings(cfg).timeout = 0 THEN FALLBACK_TIMEOUT ELSE Settings(cfg).timeout

\* translateFullText: Math.max(baseTimeout * 2, 120000)
TranslateTimeout(cfg) == Max(CallTimeout(cfg) * 2, MIN_TRANSLATE_TIMEOUT)

\* translateFullText: { ...config, llmSettings: { ...settings, timeout } }
TranslateConfig(cfg) ==
    [cfg EXCEPT !.llmSettings =
        [Settings(cfg) EXCEPT !.timeout = TranslateTimeout(cfg)]]

\* mutant: the longer timeout is written into the caller's Config object
ConfigAfterTranslate_InPlace(cfg) == TranslateConfig(cfg)

\* the caller's Config object once translateFullText has built its own: the
\* spread copies, the object passed in is not assigned to
ConfigAfterTranslate(cfg) == cfg

\* scoreAndSummarize(config, item) reaches callLLM(config, prompt)
ScoreCall ==
    /\ Len(tr.calls) < MaxCalls
    /\ tr' = [tr EXCEPT !.calls =
                 Append(@, [by |-> "score", timeout |-> CallTimeout(tr.config)])]
    /\ UNCHANGED <<isDigestRunning, config, seenFile, articlesFile, historyFile,
                   run, nextId, triggers, faulted, llm, page, cb, sched, agg>>

\* translateFullText(config, content) up to the await inside callLLM
TranslateBegin ==
    /\ Len(tr.calls) < MaxCalls
    /\ tr' = [tr EXCEPT
                 !.calls = Append(@, [by |-> "translate",
                                      timeout |-> CallTimeout(TranslateConfig(tr.config))]),
                 !.config = ConfigAfterTranslate(@),
                 !.translating = @ + 1]
    /\ UNCHANGED <<isDigestRunning, config, seenFile, articlesFile, historyFile,
                   run, nextId, triggers, faulted, llm, page, cb, sched, agg>>

\* the callLLM of a translation settles; translateFullText returns or throws
TranslateEnd ==
    /\ tr.translating > 0
    /\ tr' = [tr EXCEPT !.translating = @ - 1]
    /\ UNCHANGED <<isDigestRunning, config, seenFile, articlesFile, historyFile,
                   run, nextId, triggers, faulted, llm, page, cb, sched, agg>>

\* loaded is what loadJSON(CONFIG_FILE) returned, config the object in memory
InitTimeout ==
    /\ isDigestRunning = FALSE
    /\ config = NoCfg
    /\ seenFile = <<>>
    /\ articlesFile = <<>>
    /\ historyFile = <<>>
    /\ run = [r \in Runs |-> IdleFrame]
    /\ nextId = 1
    /\ triggers = 0
    /\ faulted = FALSE
    /\ llm = LLMIdle
    /\ \E c \in TimeoutConfigs :
         tr = [loaded |-> c, config |-> c, calls |-> <<>>, translating |-> 0]
    /\ page = Unused /\ cb = Unused /\ sched = Unused /\ agg = Unused

NextTimeout == ScoreCall \/ TranslateBegin \/ TranslateEnd

SpecTimeout == InitTimeout /\ [][NextTimeout]_vars

\* C11: every translation runs callLLM with max(2 * base, 120000), where base
\* is the timeout a scoring call gets from the configuration as loaded; the
\* Config object stays as loaded, and every scoring call, before, during or
\* after a translation, gets the base timeout.
C11_TranslateTimeoutLeavesConfig ==
    LET base == IF ~tr.loaded.llmSettings.present THEN 120000
                ELSE IF tr.loaded.llmSettings.timeout = 0 THEN 60000
                ELSE tr.loaded.llmSettings.timeout
        doubled == IF 2 * base >= 120000 THEN 2 * base ELSE 120000
    IN /\ tr.config = tr.loaded
       /\ \A k \in 1..Len(tr.calls) :
            tr.calls[k].timeout =
                IF tr.calls[k].by = "translate" THEN doubled ELSE base

\* C11 witness: a 90 s base; a translation is in flight with 180 s, and a
\* scoring call made after it began got 90 s
C11_Witness ==
    /\ tr.translating > 0
    /\ Len(tr.calls) >= 2
    /\ tr.calls[1] = [by |-> "translate", timeout |-> 180000]
    /\ tr.calls[2] = [by |-> "score", timeout |-> 90000]

----------------------------------------------------------------------------
(* Message composer: splitLongText and formatFullTextMessages               *)
(*                                                                          *)
(* A text is a sequence of characters.  "SP" is a space, "LF" a line feed,  *)
(* "DOT" the full stop U+3002, "x" any other character.  A message is kept  *)
(* as its pieces (header, body portion, part marker, footer); its length is *)
(* the length of the string the template literal builds from them.          *)

MaxContent == 6       \* length of article.translatedContent

Chars == {"x", "SP", "LF", "DOT"}
TitleLengths == {0, 2}       \* length of article.titleZh
KeywordCounts == {0, 2}      \* article.keywords.length, each keyword one character

(* Sizes.  The payload ceiling (4000 in the source), the split length (3800) *)
(* and the fixed text of header (93), footer (38) and part marker (18) are   *)
(* scaled down together: as in the source a body one longer than the split   *)
(* length still fits one message, and header, first body portion and part    *)
(* marker fit the ceiling with room for a short title only.                  *)
MSG_LIMIT == 9
SPLIT_LEN == 2
HEADER_FIXED == 1
FOOTER_FIXED == 1
MARKER_FIXED == 1
PARA_SEP == 2          \* "\n\n"
KEYWORD_SEP == 3       \* " · "

Take(s, n) == SubSeq(s, 1, n)
Drop(s, n) == SubSeq(s, n + 1, Len(s))

IsSpace(c) == c \in {"SP", "LF"}

\* String.prototype.trim
Trim(s) ==
    LET solid == {i \in 1..Len(s) : ~IsSpace(s[i])}
    IN IF solid = {} THEN <<>>
       ELSE SubSeq(s, CHOOSE i \in solid : \A j \in solid : i <= j,
                      CHOOSE i \in solid : \A j \in solid : i >= j)

\* s.lastIndexOf(sub, from): the largest 0-based index <= from at which sub
\* starts, -1 if there is none
LastIndexOf(s, sub, from) ==
    LET hits == {i \in 0..from :
                    /\ i + Len(sub) <= Len(s)
                    /\ SubSeq(s, i + 1, i + Len(sub)) = sub}
    IN IF hits = {} THEN -1 ELSE CHOOSE i \in hits : \A j \in hits : i >= j

\* s.split('\n\n')
RECURSIVE SplitParagraphs(_)
SplitParagraphs(s) ==
    LET seps == {i \in 1..(Len(s) - 1) : s[i] = "LF" /\ s[i + 1] = "LF"}
    IN IF seps = {} THEN <<s>>
       ELSE LET i == CHOOSE k \in seps : \A j \in seps : k <= j
            IN <<Take(s, i - 1)>> \o SplitParagraphs(Drop(s, i + 1))

\* ps.join('\n\n')
RECURSIVE JoinParagraphs(_)
JoinParagraphs(ps) ==
    IF ps = <<>> THEN <<>>
    ELSE IF Len(ps) = 1 THEN ps[1]
    ELSE ps[1] \o <<"LF", "LF">> \o JoinParagraphs(Tail(ps))

\* content.split('\n\n').map(p => p.trim()).filter(p => p).join('\n\n')
FormattedContent(content) ==
    LET ps == SplitParagraphs(content)
        trimmed == [i \in 1..Len(ps) |-> Trim(ps[i])]
    IN JoinParagraphs(SelectSeq(trimmed, LAMBDA q : q # <<>>))

\* mutant: the space is tried before the full stop
SplitPos_SpaceFirst(remaining, maxLen) ==
    LET p1 == LastIndexOf(remaining, <<"LF", "LF">>, maxLen)
        p2 == IF 2 * p1 < maxLen THEN LastIndexOf(remaining, <<"SP">>, maxLen) ELSE p1
        p3 == IF 2 * p2 < maxLen THEN LastIndexOf(remaining, <<"DOT">>, maxLen) ELSE p2
    IN IF 2 * p3 < maxLen THEN maxLen ELSE p3

\* mutant: the hard cut falls one character after the window
SplitPos_PastLimit(remaining, maxLen) ==
    LET p1 == LastIndexOf(remaining, <<"LF", "LF">>, maxLen)
        p2 == IF 2 * p1 < maxLen THEN LastIndexOf(remaining, <<"DOT">>, maxLen) ELSE p1
        p3 == IF 2 * p2 < maxLen THEN LastIndexOf(remaining, <<"SP">>, maxLen) ELSE p2
    IN IF 2 * p3 < maxLen THEN maxLen + 1 ELSE p3

\* the position splitLongText cuts remaining at: the last paragraph break,
\* else the last full stop, else the last space, each only if it lies in the
\* second half of the window, else the window's end
SplitPos(remaining, maxLen) ==
    LET p1 == LastIndexOf(remaining, <<"LF", "LF">>, maxLen)
        p2 == IF 2 * p1 < maxLen THEN LastIndexOf(remaining, <<"DOT">>, maxLen) ELSE p1
        p3 == IF 2 * p2 < maxLen THEN LastIndexOf(remaining, <<"SP">>, maxLen) ELSE p2
    IN IF 2 * p3 < maxLen THEN maxLen ELSE p3

\* mutant: the character at the cut is skipped
RestAfter_SkipsOne(remaining, splitPos) == Trim(Drop(remaining, splitPos + 1))

\* remaining.slice(splitPos).trim()
RestAfter(remaining, splitPos) == Trim(Drop(remaining, splitPos))

\* the while loop of splitLongText
RECURSIVE SplitLoop(_, _)
SplitLoop(remaining, maxLen) ==
    IF Len(remaining) = 0 THEN <<>>
    ELSE IF Len(remaining) <= maxLen THEN <<remaining>>
    ELSE LET splitPos == SplitPos(remaining, maxLen)
         IN <<Take(remaining, splitPos)>>
                \o SplitLoop(RestAfter(remaining, splitPos), maxLen)

splitLongText(text, maxLen) ==
    IF Len(text) <= maxLen THEN <<text>> ELSE SplitLoop(text, maxLen)

RECURSIVE TotalLen(_)
TotalLen(ss) == IF ss = <<>> THEN 0 ELSE Len(ss[1]) + TotalLen(Tail(ss))

\* article.keywords?.join(" · ").length
KeywordsLen(keywords) ==
    IF keywords = <<>> THEN 0
    ELSE TotalLen(keywords) + KEYWORD_SEP * (Len(keywords) - 1)

HeaderLen(article) == HEADER_FIXED + Len(article.titleZh)
FooterLen(article) == FOOTER_FIXED + KeywordsLen(article.keywords)

\* `${header}\n\n${formattedContent}\n\n${footer}`.length
FullTextLen(article, body) ==
    HeaderLen(article) + PARA_SEP + Len(body) + PARA_SEP + FooterLen(article)

\* length of one emitted text, from the pieces its template puts together
TextLen(article, m) ==
    (IF m.header THEN HeaderLen(article) + PARA_SEP ELSE 0)
    + Len(m.part)
    + (IF m.marker # <<>> THEN PARA_SEP + MARKER_FIXED ELSE 0)
    + (IF m.footer THEN PARA_SEP + FooterLen(article) ELSE 0)

\* the texts formatFullTextMessages returns
formatFullTextMessages(article) ==
    LET formattedContent == FormattedContent(article.translatedContent)
    IN IF FullTextLen(article, formattedContent) <= MSG_LIMIT
       THEN <<[header |-> TRUE, part |-> formattedContent,
               marker |-> <<>>, footer |-> TRUE]>>
       ELSE LET contentParts == splitLongText(formattedContent, SPLIT_LEN)
                n == Len(contentParts)
            IN [i \in 1..n |->
                  [header |-> i = 1,
                   part |-> contentParts[i],
                   marker |-> IF i < n THEN <<i, n>> ELSE <<>>,
                   footer |-> n > 1 /\ i = n]]

\* no reply_markup: markup is null or undefined
NoMarkup == [back |-> FALSE, link |-> FALSE]

\* the markup formatFullTextMessages returns with its texts: null on the
\* early return for a text within the limit; otherwise the inline keyboard,
\* with the back button if the article has a summaryMsgId and the link button
fullTextMarkup(article) ==
    IF FullTextLen(article, FormattedContent(article.translatedContent)) <= MSG_LIMIT
    THEN NoMarkup
    ELSE [back |-> article.summaryMsgId # 0, link |-> TRUE]

\* sendTelegramMessages(config, texts, finalMarkup): the messages sent, each
\* with the markup it is sent with
sendTelegramMessages(texts, finalMarkup) ==
    [i \in 1..Len(texts) |->
        [text |-> texts[i],
         markup |-> IF i = Len(texts) THEN finalMarkup ELSE NoMarkup]]

\* Articles with a translation: callLLMOnce rejects an empty answer, so
\* translatedContent is not empty; summaryMsgId is 0 (null) when the summary
\* could not be sent
TranslatedArticles ==
    [titleZh : {[i \in 1..n |-> "x"] : n \in TitleLengths},
     keywords : {[i \in 1..n |-> <<"x">>] : n \in KeywordCounts},
     summaryMsgId : {0, 1},
     translatedContent : SeqsUpTo(Chars, MaxContent) \ {<<>>}]

\* formatFullTextMessages(article) is called and returns
FormatFullText ==
    /\ page.pc = "call"
    /\ page' = [page EXCEPT !.pc = "done",
                            !.texts = formatFullTextMessages(page.article),
                            !.markup = fullTextMarkup(page.article)]
    /\ UNCHANGED <<isDigestRunning, config, seenFile, articlesFile, historyFile,
                   run, nextId, triggers, faulted, llm, tr, cb, sched, agg>>

\* await sendTelegramMessages(config, texts, markup) has sent its messages
SendFullText ==
    /\ page.pc = "done"
    /\ page' = [page EXCEPT !.pc = "sent",
                            !.sent = sendTelegramMessages(page.texts, page.markup)]
    /\ UNCHANGED <<isDigestRunning, config, seenFile, articlesFile, historyFile,
                   run, nextId, triggers, faulted, llm, tr, cb, sched, agg>>

InitPage ==
    /\ isDigestRunning = FALSE
    /\ config = NoCfg
    /\ seenFile = <<>>
    /\ articlesFile = <<>>
    /\ historyFile = <<>>
    /\ run = [r \in Runs |-> IdleFrame]
    /\ nextId = 1
    /\ triggers = 0
    /\ faulted = FALSE
    /\ llm = LLMIdle
    /\ \E a \in TranslatedArticles :
          page = [pc |-> "call", article |-> a, texts |-> <<>>,
                  markup |-> NoMarkup, sent |-> <<>>]
    /\ tr = Unused /\ cb = Unused /\ sched = Unused /\ agg = Unused

NextPage == FormatFullText \/ SendFullText

SpecPage == InitPage /\ [][NextPage]_vars

\* the body portions of the emitted texts, in order, put together
RECURSIVE ConcatParts(_)
ConcatParts(texts) ==
    IF texts = <<>> THEN <<>> ELSE texts[1].part \o ConcatParts(Tail(texts))

\* text is the parts in order with nothing but white space between them
RECURSIVE PartsWithGaps(_, _)
PartsWithGaps(text, parts) ==
    IF parts = <<>> THEN \A i \in 1..Len(text) : text[i] \in {"SP", "LF"}
    ELSE /\ Len(parts[1]) <= Len(text)
         /\ SubSeq(text, 1, Len(parts[1])) = parts[1]
         /\ \E g \in 0..(Len(text) - Len(parts[1])) :
              /\ \A i \in 1..g : text[Len(parts[1]) + i] \in {"SP", "LF"}
              /\ PartsWithGaps(SubSeq(text, Len(parts[1]) + g + 1, Len(text)),
                               Tail(parts))

\* C12 as stated: the body portions of the segments, concatenated in order,
\* are exactly the normalized body, under and over the size ceiling.
C12_RoundTripExact ==
    page.pc = "done" =>
        ConcatParts(page.texts) = FormattedContent(page.article.translatedContent)

\* C12 amended: a body sent as one message round-trips exactly; a body sent
\* in several segments is its body portions in order with only white space
\* (spaces, line feeds) missing between consecutive portions.
C12_RoundTripUpToCutSpace ==
    page.pc = "done" =>
        LET body == FormattedContent(page.article.translatedContent)
            parts == [i \in 1..Len(page.texts) |-> page.texts[i].part]
        IN /\ Len(page.texts) = 1 => parts[1] = body
           /\ PartsWithGaps(body, parts)

\* C12 witness: three segments, with a space dropped at a cut
C12_Witness ==
    /\ page.pc = "done"
    /\ Len(page.texts) = 3
    /\ Len(ConcatParts(page.texts))
         < Len(FormattedContent(page.article.translatedContent))

\* C13: every emitted text, header, part marker and footer included, is at
\* most the maximum payload size long, for every title, keyword list and body.
C13_TextsWithinPayload ==
    page.pc = "done" =>
        \A i \in 1..Len(page.texts) :
            TextLen(page.article, page.texts[i]) <= MSG_LIMIT

----------------------------------------------------------------------------
(* Callback handler: POST /webhook/telegram -> handleTelegramCallback, and  *)
(* POST /api/translate/:id                                                  *)
(*                                                                          *)
(* An Article of articles.json is kept here as its translatedContent and    *)
(* fullTextMsgId, 0 standing for null.  A translation the LLM returns is    *)
(* numbered: two translations of one article are two different contents.    *)
(* As in a digest run, at most one channel or disk fault (a fetch that      *)
(* rejects, a writeFileSync that throws) is explored per behaviour; an LLM  *)
(* call that fails is not a fault and may happen any number of times.       *)

MaxCallbacks == 2     \* callback events and translate requests explored

Handlers == 1..MaxCallbacks
ArticleIds == {1}             \* ids in articles.json
RequestIds == {1, 2}          \* ids a payload names; 2 is not in articles.json

\* callbackQuery.data: read_<id>, back_<msgId> (msgId 0: parseInt gives NaN or
\* 0), any other string, or no data field at all
CallbackPayloads ==
    {[kind |-> "read", id |-> i] : i \in RequestIds}
        \cup {[kind |-> "back", id |-> i] : i \in {0, 1}}
        \cup {[kind |-> "other", id |-> 0], [kind |-> "missing", id |-> 0]}

NullArticle == [translatedContent |-> 0, fullTextMsgId |-> 0]

\* the locals of one handler invocation
CbIdle ==
    [pc |-> "idle", kind |-> "none", id |-> 0, articles |-> <<>>,
     loadingMsgId |-> FALSE, acks |-> <<>>, sent |-> FALSE,
     invoked |-> FALSE, outcome |-> "none"]

\* the invocation is over: its promise is resolved ("returned") or rejected
\* with nothing to catch it ("rejected")
CbFinish(f, outcome) ==
    [CbIdle EXCEPT !.pc = "done", !.kind = f.kind, !.id = f.id,
                   !.acks = f.acks, !.sent = f.sent, !.invoked = f.invoked,
                   !.outcome = outcome]

\* mutant: the final else of the handler is missing
Branch_NoElse(kind) ==
    IF kind = "read" THEN "read" ELSE IF kind = "back" THEN "back" ELSE "ignored"

\* if (data.startsWith("read_")) ... else if (data.startsWith("back_")) ... else
Branch(kind) ==
    IF kind = "read" THEN "read" ELSE IF kind = "back" THEN "back" ELSE "unknown"

\* if (!article.translatedContent)
NeedsTranslation(article) == article.translatedContent = 0

\* mutant: the translation is not saved in the try, only by the save that
\* follows the send
FileAfterTranslate_Deferred(file, articles, id, ok, content, saved) == file

\* mutant: the save follows the try/catch and stores the failure text
FileAfterTranslate_SavesFailure(file, articles, id, ok, content, saved) ==
    IF saved
    THEN [articles EXCEPT ![id].translatedContent = IF ok THEN content ELSE 99]
    ELSE file

\* articles.json after the try of the read branch: written with the article
\* translated when translateFullText resolved and saveJSON did not throw
FileAfterTranslate(file, articles, id, ok, content, saved) ==
    IF ok /\ saved THEN [articles EXCEPT ![id].translatedContent = content] ELSE file

\* fetch(.../answerCallbackQuery) is called; what the call carries is
\* "notFound" (alert: article missing), "loading", "url" (deep link),
\* "private" (alert naming the message), "scrollUp" (alert) or "unknown"
Ack(f, what) == [f EXCEPT !.acks = Append(@, what)]

\* the handler from its entry to its first await
CbEntry(f, file) ==
    IF f.kind = "missing"
    THEN CbFinish(f, "rejected")            \* data.startsWith on undefined
    ELSE IF Branch(f.kind) = "read"
    THEN IF f.id \notin DOMAIN file
         THEN Ack([f EXCEPT !.pc = "ackFinal"], "notFound")
         ELSE Ack([f EXCEPT !.pc = "ackLoading", !.articles = file], "loading")
    ELSE IF Branch(f.kind) = "back"
    THEN IF f.id # 0
         THEN [f EXCEPT !.pc = "getChat"]
         ELSE Ack([f EXCEPT !.pc = "ackFinal"], "scrollUp")
    ELSE IF Branch(f.kind) = "unknown"
    THEN Ack([f EXCEPT !.pc = "ackFinal"], "unknown")
    ELSE CbFinish(f, "returned")

\* what the getChat call of the back branch leaves in chatInfo: a chat with
\* or without a username, of one of Telegram's types; lookup "failed" stands
\* for chatInfo.ok false, a rejected fetch and a body that is not JSON
ChatInfos ==
    [lookup : {"ok"}, username : BOOLEAN,
     type : {"private", "group", "supergroup", "channel"}]
        \cup {[lookup |-> "failed", username |-> FALSE, type |-> "none"]}

\* jumpUrl is set: the chat has a username, or is a supergroup or a channel
JumpUrl(chat) ==
    /\ chat.lookup = "ok"
    /\ chat.username \/ chat.type \in {"supergroup", "channel"}

\* mutant: the final else of the back branch's answers is missing
BackAnswer_NoFallback(chat) ==
    IF JumpUrl(chat) THEN <<"url">>
    ELSE IF chat.lookup = "ok" /\ chat.type = "private" THEN <<"private">>
    ELSE <<>>

\* if (jumpUrl) ... else if (chatType === "private") ... else: the
\* answerCallbackQuery calls of the back branch after the lookup
BackAnswer(chat) ==
    IF JumpUrl(chat) THEN <<"url">>
    ELSE IF chat.lookup = "ok" /\ chat.type = "private" THEN <<"private">>
    ELSE <<"scrollUp">>

cbFrame == <<isDigestRunning, config, seenFile, historyFile, run, nextId,
             triggers, llm, tr, page, sched, agg>>

\* POST /webhook/telegram: handleTelegramCallback(body.callback_query) is
\* called, not awaited
CallbackArrives(h) ==
    /\ cb.events < MaxCallbacks
    /\ h = cb.events + 1
    /\ \E p \in CallbackPayloads :
         cb' = [cb EXCEPT !.events = @ + 1,
                          !.h[h] = CbEntry([CbIdle EXCEPT !.kind = p.kind,
                                                          !.id = p.id],
                                           articlesFile)]
    /\ UNCHANGED <<articlesFile, faulted, cbFrame>>

\* POST /api/translate/<id> up to its await (or its answer)
TranslateRequestArrives(h) ==
    /\ cb.events < MaxCallbacks
    /\ h = cb.events + 1
    /\ \E id \in RequestIds :
         LET f == [CbIdle EXCEPT !.kind = "api", !.id = id]
         IN cb' = [cb EXCEPT
                     !.events = @ + 1,
                     !.h[h] =
                        IF id \notin DOMAIN articlesFile
                        THEN CbFinish(f, "returned")
                        ELSE IF NeedsTranslation(articlesFile[id])
                        THEN [f EXCEPT !.pc = "apiTranslating", !.invoked = TRUE,
                                       !.articles = articlesFile]
                        ELSE CbFinish(f, "returned")]
    /\ UNCHANGED <<articlesFile, faulted, cbFrame>>

\* an answerCallbackQuery fetch resolves
AckResolves(h) ==
    LET f == cb.h[h]
    IN /\ f.pc \in {"ackFinal", "ackLoading"}
       /\ cb' = [cb EXCEPT !.h[h] =
                    IF f.pc = "ackFinal" THEN CbFinish(f, "returned")
                    ELSE IF NeedsTranslation(f.articles[f.id])
                    THEN [f EXCEPT !.pc = "sendLoading", !.sent = TRUE]
                    ELSE [f EXCEPT !.pc = "sendFull", !.sent = TRUE]]
       /\ UNCHANGED <<articlesFile, faulted, cbFrame>>

\* a fetch of the handler outside every try rejects (answerCallbackQuery,
\* deleteMessage): the handler's promise rejects
ChannelCallRejects(h) ==
    LET f == cb.h[h]
    IN /\ f.pc \in {"ackFinal", "ackLoading", "deleteLoading", "deleteFailed"}
       /\ ~faulted
       /\ faulted' = TRUE
       /\ cb' = [cb EXCEPT !.h[h] = CbFinish(f, "rejected")]
       /\ UNCHANGED <<articlesFile, cbFrame>>

\* the getChat fetch of the back branch settles; a failure is caught (982)
GetChatSettles(h) ==
    LET f == cb.h[h]
    IN /\ f.pc = "getChat"
       /\ \E chat \in ChatInfos :
            cb' = [cb EXCEPT !.h[h] = [f EXCEPT !.pc = "ackFinal",
                                                !.acks = @ \o BackAnswer(chat)]]
       /\ UNCHANGED <<articlesFile, faulted, cbFrame>>

\* sendTelegram(loadingMsg) returns a message id or null; translateFullText
\* is called
LoadingSent(h) ==
    LET f == cb.h[h]
    IN /\ f.pc = "sendLoading"
       /\ \E got \in BOOLEAN :
            cb' = [cb EXCEPT !.h[h] = [f EXCEPT !.pc = "translating",
                                                !.loadingMsgId = got,
                                                !.invoked = TRUE]]
       /\ UNCHANGED <<articlesFile, faulted, cbFrame>>

\* mutant: the catch does not return, the handler goes on to the full text
AfterTranslate_NoReturn(f, success) ==
    IF f.loadingMsgId
    THEN [f EXCEPT !.pc = "deleteLoading"]
    ELSE [f EXCEPT !.pc = "sendFull", !.sent = TRUE]

\* where the read branch goes after its try: on to the full text, or into
\* the catch; a loading message that was sent is deleted first
AfterTranslate(f, success) ==
    IF f.loadingMsgId
    THEN [f EXCEPT !.pc = IF success THEN "deleteLoading" ELSE "deleteFailed"]
    ELSE [f EXCEPT !.pc = IF success THEN "sendFull" ELSE "sendError",
                   !.sent = TRUE]

\* translateFullText resolves: article.translatedContent is assigned and
\* saveJSON(ARTICLES_FILE, articles) runs inside the try; if it throws
\* (diskOk false) the catch treats it as a failed translation
TranslationResolves(h) ==
    LET f == cb.h[h]
        content == cb.nextContent
    IN /\ f.pc = "translating"
       /\ \E diskOk \in BOOLEAN :
            /\ ~diskOk => ~faulted
            /\ faulted' = (faulted \/ ~diskOk)
            /\ articlesFile' = FileAfterTranslate(articlesFile, f.articles, f.id,
                                                  TRUE, content, diskOk)
            /\ cb' = [cb EXCEPT
                        !.nextContent = @ + 1,
                        !.h[h] = AfterTranslate(
                                    [f EXCEPT !.articles[f.id].translatedContent = content],
                                    diskOk)]
       /\ UNCHANGED cbFrame

\* translateFullText throws (every LLM attempt failed): the catch at 906
TranslationFails(h) ==
    LET f == cb.h[h]
    IN /\ f.pc = "translating"
       /\ articlesFile' = FileAfterTranslate(articlesFile, f.articles, f.id,
                                             FALSE, 0, TRUE)
       /\ cb' = [cb EXCEPT !.h[h] = AfterTranslate(f, FALSE)]
       /\ UNCHANGED <<faulted, cbFrame>>

\* the deleteMessage fetch for the loading message resolves
DeleteResolves(h) ==
    LET f == cb.h[h]
    IN /\ f.pc \in {"deleteLoading", "deleteFailed"}
       /\ cb' = [cb EXCEPT !.h[h] =
                    [f EXCEPT !.pc = IF f.pc = "deleteLoading" THEN "sendFull"
                                     ELSE "sendError",
                              !.sent = TRUE]]
       /\ UNCHANGED <<articlesFile, faulted, cbFrame>>

\* the failure notice is sent (sendTelegram never throws); return
ErrorSent(h) ==
    LET f == cb.h[h]
    IN /\ f.pc = "sendError"
       /\ cb' = [cb EXCEPT !.h[h] = CbFinish(f, "returned")]
       /\ UNCHANGED <<articlesFile, faulted, cbFrame>>

\* sendTelegramMessages returns the last message id or null;
\* article.fullTextMsgId = lastMsgId; saveJSON(ARTICLES_FILE, articles)
FullSent(h) ==
    LET f == cb.h[h]
    IN /\ f.pc = "sendFull"
       /\ \E lastMsgId \in {0, 1}, diskOk \in BOOLEAN :
            /\ ~diskOk => ~faulted
            /\ faulted' = (faulted \/ ~diskOk)
            /\ articlesFile' =
                 IF diskOk THEN [f.articles EXCEPT ![f.id].fullTextMsgId = lastMsgId]
                 ELSE articlesFile
            /\ cb' = [cb EXCEPT !.h[h] =
                         CbFinish(f, IF diskOk THEN "returned" ELSE "rejected")]
       /\ UNCHANGED cbFrame

\* the translateFullText of POST /api/translate settles; the route has no try
TranslateRequestSettles(h) ==
    LET f == cb.h[h]
        content == cb.nextContent
    IN /\ f.pc = "apiTranslating"
       /\ \E ok \in BOOLEAN, diskOk \in BOOLEAN :
            /\ ~ok => diskOk
            /\ ~diskOk => ~faulted
            /\ faulted' = (faulted \/ ~diskOk)
            /\ articlesFile' =
                 IF ok /\ diskOk
                 THEN [f.articles EXCEPT ![f.id].translatedContent = content]
                 ELSE articlesFile
            /\ cb' = [cb EXCEPT
                        !.nextContent = IF ok THEN @ + 1 ELSE @,
                        !.h[h] = CbFinish(f, IF ok /\ diskOk THEN "returned"
                                             ELSE "rejected")]
       /\ UNCHANGED cbFrame

InitCallback ==
    /\ isDigestRunning = FALSE
    /\ config = NoCfg
    /\ seenFile = <<>>
    /\ articlesFile = [id \in ArticleIds |-> NullArticle]
    /\ historyFile = <<>>
    /\ run = [r \in Runs |-> IdleFrame]
    /\ nextId = 1
    /\ triggers = 0
    /\ faulted = FALSE
    /\ llm = LLMIdle
    /\ cb = [h |-> [x \in Handlers |-> CbIdle], events |-> 0, nextContent |-> 1]
    /\ tr = Unused /\ page = Unused /\ sched = Unused /\ agg = Unused

NextCallback ==
    \/ \E h \in Handlers : CallbackArrives(h)
    \/ \E h \in Handlers : TranslateRequestArrives(h)
    \/ \E h \in Handlers : AckResolves(h)
    \/ \E h \in Handlers : ChannelCallRejects(h)
    \/ \E h \in Handlers : GetChatSettles(h)
    \/ \E h \in Handlers : LoadingSent(h)
    \/ \E h \in Handlers : TranslationResolves(h)
    \/ \E h \in Handlers : TranslationFails(h)
    \/ \E h \in Handlers : DeleteResolves(h)
    \/ \E h \in Handlers : ErrorSent(h)
    \/ \E h \in Handlers : FullSent(h)
    \/ \E h \in Handlers : TranslateRequestSettles(h)

SpecCallback == InitCallback /\ [][NextCallback]_vars

\* C14: the LLM is called to translate an article only while the persisted
\* translatedContent of that article is null, and a persisted
\* translatedContent that is not null is never replaced, under every
\* interleaving of read callbacks and translate requests.
C14_TranslatedOnce ==
    [][\A id \in ArticleIds :
          /\ articlesFile[id].translatedContent # 0
               => articlesFile'[id].translatedContent
                      = articlesFile[id].translatedContent
          /\ \A h \in Handlers :
               (~cb.h[h].invoked /\ cb'.h[h].invoked /\ cb'.h[h].id = id)
                   => articlesFile[id].translatedContent = 0
      ]_vars

\* C15: a translation attempt that fails leaves articles.json as it was, and
\* a read callback for an article is always admitted and, finding no
\* translation in the articles it loaded, goes on to translate.
C15_FailedTranslationRetryable ==
    [][\A h \in Handlers :
          LET f == cb.h[h]
              g == cb'.h[h]
          IN /\ (f.pc = "translating" /\ g.pc \in {"deleteFailed", "sendError"})
                   => articlesFile' = articlesFile
             /\ (f.pc = "idle" /\ g.kind = "read" /\ g.id \in DOMAIN articlesFile)
                   => g.pc = "ackLoading" /\ g.articles = articlesFile
             /\ (f.pc = "ackLoading" /\ g # f /\ g.outcome # "rejected"
                   /\ f.articles[f.id].translatedContent = 0)
                   => g.pc = "sendLoading"
             /\ (f.pc = "sendLoading" /\ g # f)
                   => g.pc = "translating" /\ g.invoked
      ]_vars

\* C15 witness: a read callback whose translation failed has returned, the
\* article is still untranslated on disk, and a later read callback for the
\* same article is translating
C15_Witness ==
    \E h \in Handlers, k \in Handlers :
        /\ h < k /\ cb.h[h].kind = "read" /\ cb.h[k].kind = "read"
        /\ cb.h[h].id = cb.h[k].id
        /\ cb.h[h].outcome = "returned" /\ cb.h[h].invoked
        /\ articlesFile[cb.h[k].id] = NullArticle
        /\ cb.h[k].pc = "translating"

\* C16: a callback whose data is a string that is neither a read_ nor a back_
\* payload is answered (answerCallbackQuery is issued), and its handler calls
\* no translation, sends no message and leaves articles.json as it is.
C16_UnknownAcknowledged ==
    [][\A h \in Handlers :
          cb'.h[h].kind = "other" =>
              /\ cb'.h[h].acks # <<>>
              /\ ~cb'.h[h].invoked
              /\ ~cb'.h[h].sent
              /\ cb'.h[h] # cb.h[h] => articlesFile' = articlesFile
      ]_vars

\* C16 witness: an unknown callback was answered and its handler returned
\* while a read callback was translating
C16_Witness ==
    \E h \in Handlers, k \in Handlers :
        /\ cb.h[h].kind = "other" /\ cb.h[h].outcome = "returned" /\ cb.h[h].acks # <<>>
        /\ cb.h[k].pc = "translating"

\* C18: no failure while a callback event is handled leaves
\* handleTelegramCallback as a rejection nothing catches.
C18_CallbackCatchesAll ==
    \A h \in Handlers : cb.h[h].kind # "api" => cb.h[h].outcome # "rejected"

----------------------------------------------------------------------------
(* Claims about failures and the run history, checked under Spec            *)

\* C17: a failure that escapes a step of a started run (composing a message,
\* saving a file) ends the run with the outcome success = false, count 0:
\* the run returns, it does not throw to the scheduler tick or run request.
C17_RunFailuresCaught ==
    [][\A r \in Runs :
          /\ (Active(r) /\ ~faulted /\ faulted' /\ run'[r] # run[r])
               => /\ run'[r].pc = "done"
                  /\ run'[r].outcome = [kind |-> "error", success |-> FALSE,
                                        count |-> 0]
          /\ run'[r].outcome.kind \in {"none", "running", "config", "nonew",
                                       "error", "ok"}
          /\ run'[r].outcome.kind = "error"
               => ~run'[r].outcome.success /\ run'[r].outcome.count = 0
      ]_vars

\* C17 witness: a run that had pushed an article failed in its saves and
\* returned the failed outcome
C17_Witness ==
    \E r \in Runs :
        /\ run[r].outcome = [kind |-> "error", success |-> FALSE, count |-> 0]
        /\ faulted /\ nextId > 1 /\ articlesFile = <<>>

\* C19 as stated: every run that completes (returns success) prepends exactly
\* one entry whose count is the number of articles it pushed, and the
\* history holds at most 30 entries (HISTORY_KEEP here).
C19_HistoryPerCompletedRun ==
    [][\A r \in Runs :
          (Active(r) /\ run'[r].pc = "done" /\ run'[r].outcome.success)
              => /\ Len(historyFile') <= HISTORY_KEEP
                 /\ historyFile' # <<>>
                 /\ historyFile'[1].count = run'[r].outcome.count
                 /\ \A i \in 2..Len(historyFile') : historyFile'[i] = historyFile[i - 1]
                 /\ Len(historyFile') >= IF Len(historyFile) < HISTORY_KEEP
                                        THEN Len(historyFile) + 1 ELSE HISTORY_KEEP
      ]_vars

\* C19 amended: a run that gets through its saves prepends exactly one entry
\* (newest first) whose count is the number of articles the run pushed; a run
\* that ends early (no credential, no new item) or fails, and every other
\* step, leaves the history as it is; the history never holds more than 30
\* entries (HISTORY_KEEP here).
C19_HistoryPerPersistedRun ==
    [][/\ Len(historyFile') <= HISTORY_KEEP
       /\ \A r \in Runs :
            (run[r].pc = "persist" /\ run'[r].outcome.kind = "ok")
               => LET entry == [count |-> Len(run[r].newArticles),
                                articles |-> [i \in 1..Len(run[r].newArticles)
                                                |-> run[r].newArticles[i].id]]
                      all == <<entry>> \o historyFile
                  IN /\ run'[r].outcome.count = Len(run[r].newArticles)
                     /\ historyFile' =
                          SubSeq(all, 1, IF Len(all) > HISTORY_KEEP
                                         THEN HISTORY_KEEP ELSE Len(all))
       /\ historyFile' # historyFile
            => \E r \in Runs : run[r].pc = "persist" /\ run'[r].outcome.kind = "ok"
      ]_vars

\* C19 witness: the history is full, its newest entry is that of a run that
\* pushed two articles, and the entry from before the start has been dropped
C19_Witness ==
    /\ Len(historyFile) = HISTORY_KEEP
    /\ historyFile[1].count = 2
    /\ \A i \in 1..Len(historyFile) : historyFile[i] \notin Range(OldHistory)
    /\ \E r \in Runs : run[r].outcome = [kind |-> "ok", success |-> TRUE, count |-> 2]

----------------------------------------------------------------------------
(* Scheduler: setupSchedule and its one-minute timer                        *)

MaxTicks == 2         \* timer callbacks explored

ClockMinutes == {0, 1}        \* now.getMinutes()
ClockHours == {0, 1}          \* now.getHours()

\* a field of config.schedule.cron.split(" "): "*", digits, or anything that
\* parseInt turns into NaN ("x"; a cron with no second field reads the same)
CronFields == {"*", "0", "1", "x"}

Schedules == [enabled : BOOLEAN, minute : CronFields, hour : CronFields]

NaN == -1

\* parseInt(field)
ParseInt(field) == IF field = "0" THEN 0 ELSE IF field = "1" THEN 1 ELSE NaN

\* field === "*" || parseInt(field) === value
FieldMatches(field, value) == field = "*" \/ ParseInt(field) = value

\* mutant: the hour field is not looked at
CronMatches_MinuteOnly(schedule, now) == FieldMatches(schedule.minute, now.minute)

\* the condition of the timer callback
CronMatches(schedule, now) ==
    /\ FieldMatches(schedule.minute, now.minute)
    /\ FieldMatches(schedule.hour, now.hour)

\* let scheduleTimer: Timer | null = null
NoTimer == 0

\* the handle setInterval returns: one no live timer has
NewHandle(timers) ==
    IF timers = {} THEN 1
    ELSE 1 + (CHOOSE n \in {t.id : t \in timers} :
                \A t \in timers : t.id <= n)

\* mutant: the timer in scheduleTimer is left running
Cleared_KeepsOld(sc) == sc.timers

\* if (scheduleTimer) { clearInterval(scheduleTimer); scheduleTimer = null }:
\* the interval timers that stay live
Cleared(sc) == {t \in sc.timers : t.id # sc.scheduleTimer}

\* setupSchedule(config): the old timer is cleared; a new one, closing over
\* config, is set if the schedule is enabled
AfterSetup(sc, schedule) ==
    LET rest == Cleared(sc)
        handle == NewHandle(rest)
    IN IF ~schedule.enabled
       THEN [sc EXCEPT !.timers = rest, !.scheduleTimer = NoTimer]
       ELSE [sc EXCEPT !.timers = rest \cup {[id |-> handle,
                                               captured |-> schedule]},
                       !.scheduleTimer = handle]

\* POST /api/config: saveJSON(CONFIG_FILE, newConfig); setupSchedule(newConfig)
ConfigSaved ==
    /\ \E schedule \in Schedules :
         sched' = AfterSetup([sched EXCEPT !.file = schedule], schedule)
    /\ UNCHANGED <<isDigestRunning, config, seenFile, articlesFile, historyFile,
                   run, nextId, triggers, faulted, llm, tr, page, cb, agg>>

\* the wall clock reaches the next minute
ClockAdvances ==
    /\ sched' = [sched EXCEPT
                   !.now = IF sched.now.minute = 1
                           THEN [minute |-> 0, hour |-> 1 - sched.now.hour]
                           ELSE [minute |-> 1, hour |-> sched.now.hour]]
    /\ UNCHANGED <<isDigestRunning, config, seenFile, articlesFile, historyFile,
                   run, nextId, triggers, faulted, llm, tr, page, cb, agg>>

\* the callback of a live timer runs and finds its pattern matching:
\* runDigest()
TimerFiresMatching(r) ==
    /\ sched.ticks < MaxTicks
    /\ \E t \in sched.timers : CronMatches(t.captured, sched.now)
    /\ RunDigestEntered(r)
    /\ sched' = [sched EXCEPT !.ticks = @ + 1]
    /\ UNCHANGED <<tr, page, cb, agg>>

\* the callback of a live timer runs and finds its pattern not matching
TimerFiresIdle ==
    /\ sched.ticks < MaxTicks
    /\ \E t \in sched.timers : ~CronMatches(t.captured, sched.now)
    /\ sched' = [sched EXCEPT !.ticks = @ + 1]
    /\ UNCHANGED <<isDigestRunning, config, seenFile, articlesFile, historyFile,
                   run, nextId, triggers, faulted, llm, tr, page, cb, agg>>

\* start-up: config.json is loaded and setupSchedule(config) is called
InitSched ==
    /\ isDigestRunning = FALSE
    /\ config \in Configs
    /\ seenFile = <<>>
    /\ articlesFile = <<>>
    /\ historyFile = <<>>
    /\ run = [r \in Runs |-> IdleFrame]
    /\ nextId = 1
    /\ triggers = 0
    /\ faulted = FALSE
    /\ llm = LLMIdle
    /\ \E schedule \in Schedules, m \in ClockMinutes, h \in ClockHours :
         sched = AfterSetup([timers |-> {}, scheduleTimer |-> NoTimer,
                             file |-> schedule,
                             now |-> [minute |-> m, hour |-> h], ticks |-> 0],
                            schedule)
    /\ tr = Unused /\ page = Unused /\ cb = Unused /\ agg = Unused

NextSched ==
    \/ ConfigSaved
    \/ ClockAdvances
    \/ \E r \in Runs : TimerFiresMatching(r)
    \/ TimerFiresIdle

SpecSched == InitSched /\ [][NextSched]_vars

\* C20: a timer callback triggers a digest run if and only if the schedule of
\* the saved configuration is enabled, its minute field is "*" or the current
\* minute, and its hour field is "*" or the current hour; nothing else in the
\* scheduler triggers a run.
C20_TickTriggersIffMatch ==
    [][LET s == sched.file
           minuteOk == s.minute = "*"
                         \/ (s.minute = "0" /\ sched.now.minute = 0)
                         \/ (s.minute = "1" /\ sched.now.minute = 1)
           hourOk == s.hour = "*"
                       \/ (s.hour = "0" /\ sched.now.hour = 0)
                       \/ (s.hour = "1" /\ sched.now.hour = 1)
       IN /\ sched'.ticks # sched.ticks
               => (triggers' = triggers + 1 <=> s.enabled /\ minuteOk /\ hourOk)
          /\ triggers' # triggers => sched'.ticks = sched.ticks + 1
          /\ (~s.enabled) => sched'.ticks = sched.ticks
      ]_vars

\* C20 witness: with the pattern "1 *", a callback at minute 0 triggered
\* nothing and the callback a minute later triggered a run
C20_Witness ==
    /\ sched.file = [enabled |-> TRUE, minute |-> "1", hour |-> "*"]
    /\ sched.ticks = 2 /\ triggers = 1
    /\ sched.now.minute = 1

\* C38: after any sequence of schedule (re)configurations at most one
\* scheduler timer is live, it uses the pattern of the most recent
\* configuration, and no timer is live, so that no scheduled run is triggered,
\* when the most recent configuration has the schedule disabled.
C38_OneTimerOfLatestConfig ==
    /\ Cardinality(sched.timers) <= 1
    /\ \A t \in sched.timers : t.captured = sched.file
    /\ (~sched.file.enabled) => sched.timers = {}

\* C38 witness: a timer triggered a run, and the schedule was then saved
\* disabled: the timer is gone
C38_Witness ==
    /\ triggers = 1
    /\ ~sched.file.enabled
    /\ sched.timers = {}
    /\ sched.scheduleTimer = NoTimer

----------------------------------------------------------------------------
(* Article store shared by a digest run and the callback handler            *)

\* one digest run and one callback are enough for their steps to interleave
StoreRuns == 1
StoreCallbacks == 1

\* an article as runDigest stored it: not translated, no full-text message
StoredArticle(id) ==
    [id |-> id, link |-> "x", score |-> SCORE_THRESHOLD, createdAt |-> id,
     translatedContent |-> 0, fullTextMsgId |-> 0]

\* articles.json holds one article pushed by an earlier run; the run and the
\* handlers of SpecCallback work on it at the same time
InitStore ==
    /\ isDigestRunning = FALSE
    /\ config \in Configs
    /\ seenFile = <<>>
    /\ articlesFile = [id \in ArticleIds |-> StoredArticle(id)]
    /\ historyFile = <<>>
    /\ run = [r \in Runs |-> IdleFrame]
    /\ nextId = 2
    /\ triggers = 0
    /\ faulted = FALSE
    /\ llm = LLMIdle
    /\ cb = [h |-> [x \in Handlers |-> CbIdle], events |-> 0, nextContent |-> 1]
    /\ tr = Unused /\ page = Unused /\ sched = Unused /\ agg = Unused

NextStore ==
    \/ \E r \in Runs : triggers < StoreRuns /\ ManualRun(r)
    \/ \E r \in Runs : RunFetched(r)
    \/ \E r \in Runs : RunScored(r)
    \/ \E r \in Runs : RunSelected(r)
    \/ \E r \in Runs : RunPushed(r)
    \/ \E r \in Runs : RunPersistOk(r)
    \/ \E h \in Handlers : cb.events < StoreCallbacks /\ CallbackArrives(h)
    \/ \E h \in Handlers : AckResolves(h)
    \/ \E h \in Handlers : LoadingSent(h)
    \/ \E h \in Handlers : TranslationResolves(h)
    \/ \E h \in Handlers : TranslationFails(h)
    \/ \E h \in Handlers : DeleteResolves(h)
    \/ \E h \in Handlers : ErrorSent(h)
    \/ \E h \in Handlers : FullSent(h)

SpecStore == InitStore /\ [][NextStore]_vars

\* C21: translated content that the callback handler has persisted for an
\* article is still there (not null) after a digest run that was executing
\* meanwhile has persisted its articles map.
C21_NoLostTranslation ==
    [][\A id \in ArticleIds :
          (id \in DOMAIN articlesFile /\ articlesFile[id].translatedContent # 0)
              => /\ id \in DOMAIN articlesFile'
                 /\ articlesFile'[id].translatedContent # 0
      ]_vars

----------------------------------------------------------------------------
(* Progress of a digest run                                                 *)

\* fetchRSS awaits fetch(feedUrl, {headers}) with no signal and no timer, and
\* fetchAllFeeds awaits Promise.all over the feeds: when one feed never
\* answers, the await of the run never resumes
FeedNeverResponds(r) ==
    /\ run[r].pc = "fetch"
    /\ run' = [run EXCEPT ![r].pc = "fetchPending"]
    /\ UNCHANGED <<isDigestRunning, config, seenFile, articlesFile, historyFile,
                   nextId, triggers, faulted, llm, extVars>>

\* sendTelegram awaits fetch(.../sendMessage) with no signal and no timer:
\* when the channel never answers, the push loop never resumes
ChannelNeverResponds(r) ==
    /\ run[r].pc = "push"
    /\ run' = [run EXCEPT ![r].pc = "sendPending"]
    /\ UNCHANGED <<isDigestRunning, config, seenFile, articlesFile, historyFile,
                   nextId, triggers, faulted, llm, extVars>>

\* the steps of a run that the program itself brings about: a fetch that is
\* answered, an LLM call (every attempt is aborted after the timeout and the
\* attempts are counted), synchronous code, timers
RunStep(r) ==
    \/ RunFetched(r)
    \/ RunScored(r)
    \/ RunSelected(r)
    \/ RunPushed(r)
    \/ RunPushThrows(r)
    \/ RunPersistOk(r)
    \/ RunPersistFails(r)

NextLive ==
    \/ Next
    \/ \E r \in Runs : FeedNeverResponds(r)
    \/ \E r \in Runs : ChannelNeverResponds(r)

\* a run that can take a step does take one
SpecLive == Init /\ [][NextLive]_vars /\ WF_vars(\E r \in Runs : RunStep(r))

\* C22: a digest run that has started eventually returns an outcome; no feed
\* source and no channel endpoint that stays silent keeps it in progress.
C22_RunEventuallyReturns ==
    \A r \in Runs : (run[r].pc \notin {"idle", "done"}) ~> (run[r].pc = "done")


----------------------------------------------------------------------------
(* Claims on the orchestrator's batch                                        *)

\* C23: a run admitted while no primary credential is configured returns the
\* configuration-error outcome (no success, count 0) in its first step, without
\* reaching the feed fetch, the scoring or the push, and seen.json,
\* articles.json and history.json are what they were.
C23_NoCredentialFailsFast ==
    [][\A r \in Runs :
          (run[r].pc = "idle" /\ run'[r].pc # "idle"
              /\ ~isDigestRunning /\ ~config.apiKey)
          => /\ run'[r].pc = "done"
             /\ run'[r].outcome.kind = "config"
             /\ ~run'[r].outcome.success
             /\ run'[r].outcome.count = 0
             /\ ~isDigestRunning'
             /\ UNCHANGED <<seenFile, articlesFile, historyFile, nextId>>
      ]_vars

C23_Witness ==
    \E r \in Runs : run[r].pc = "done" /\ run[r].outcome.kind = "config"

\* the batch positions whose scoring call gave a result at or above the threshold
Passed(f) ==
    {i \in 1..Len(f.results) :
        f.results[i].ok /\ f.results[i].score >= SCORE_THRESHOLD}

\* C26: a scoring call that fails leaves out its own item only: the loop
\* goes on to the next item of the batch, every item of the batch is scored
\* before the selection, and the candidates are exactly the items whose own
\* call gave a score at or above the threshold.
C26_ScoringFailureIsolated ==
    [][\A r \in Runs :
          /\ (run[r].pc = "score" /\ run'[r] # run[r]
                 /\ ~run'[r].results[Len(run'[r].results)].ok)
              => /\ run'[r].scored = run[r].scored
                 /\ run'[r].toProcess = run[r].toProcess
                 /\ Len(run'[r].results) = Len(run[r].results) + 1
                 /\ run'[r].pc = IF Len(run'[r].results) < Len(run[r].toProcess)
                                 THEN "score" ELSE "select"
          /\ run'[r].pc = "select"
              => /\ Len(run'[r].results) = Len(run'[r].toProcess)
                 /\ {run'[r].scored[k].idx : k \in 1..Len(run'[r].scored)}
                        = Passed(run'[r])
      ]_vars

\* the first item's call failed and the second item was pushed
C26_Witness ==
    \E r \in Runs :
        /\ Len(run[r].results) = 2 /\ ~run[r].results[1].ok
        /\ Len(run[r].newArticles) = 1
        /\ run[r].newArticles[1].link = run[r].toProcess[2]

----------------------------------------------------------------------------
(* Claims on the Invoker's waits                                             *)

NumFailed(ep) == Cardinality({k \in 1..Len(llm.log) : llm.log[k].ep = ep /\ ~llm.log[k].ok})

\* the loop over the endpoint was left because its last attempt failed
GivenUp(ep) ==
    /\ NumFailed(ep) > 0 /\ AllFailed(ep)
    /\ IF ep = "primary" THEN PrimaryOver ELSE llm.pc = "done"

\* the failed attempts against the endpoint that another attempt follows
NumRetried(ep) == IF GivenUp(ep) THEN NumFailed(ep) - 1 ELSE NumFailed(ep)

\* C24: within one call the wait that follows the k-th failed attempt against
\* an endpoint (k from 1) is 1000 ms * k, so the waits for one endpoint grow
\* strictly, and no wait follows the last attempt against an endpoint, neither
\* before the switch to the backup nor before the call fails.
C24_BackoffSchedule ==
    /\ llm.waits = [k \in 1..NumRetried("primary") |-> 1000 * k]
                      \o [k \in 1..NumRetried("backup") |-> 1000 * k]
    /\ \A k \in 1..(Len(llm.waits) - 1) :
          llm.waits[k + 1] > llm.waits[k] \/ k = NumRetried("primary")

C24_Witness ==
    /\ llm.pc = "done" /\ llm.result = "exhausted"
    /\ llm.waits = <<1000, 2000, 1000, 2000>>

----------------------------------------------------------------------------
(* The scoring batch: more new items than the run scores                     *)

MaxBatch == 5

\* rss.topN and telegram.pushCount are separate settings
BatchConfigs == [apiKey : {TRUE}, pushCount : PushCounts, topN : {1, 2}]

InitBatch ==
    /\ isDigestRunning = FALSE
    /\ config \in BatchConfigs
    /\ seenFile = <<>>
    /\ articlesFile = <<>>
    /\ historyFile = <<>>
    /\ run = [r \in Runs |-> IdleFrame]
    /\ nextId = 1
    /\ triggers = 0
    /\ faulted = FALSE
    /\ llm = LLMIdle
    /\ tr = Unused /\ page = Unused /\ cb = Unused /\ sched = Unused /\ agg = Unused

\* the fetch returns up to MaxBatch items
RunFetchedMany(r) == RunFetchedFrom(r, SeqsUpTo(FeedLinks, MaxBatch))

NextBatch ==
    \/ \E r \in Runs : ManualRun(r)
    \/ \E r \in Runs : RunFetchedMany(r)
    \/ \E r \in Runs : RunScored(r)
    \/ \E r \in Runs : RunSelected(r)

SpecBatch == InitBatch /\ [][NextBatch]_vars

\* the factor of newItems.slice(0, config.rss.topN * 2)
BATCH_FACTOR == 2

\* C25 as stated: the number of items a run submits for scoring is at most a
\* fixed small multiple (twice) of the configured push count.
C25_BatchWithinPushCount ==
    \A r \in Runs :
        Len(run[r].results) <= BATCH_FACTOR * run[r].cfg.pushCount

\* C25 amended: the number of items a run submits for scoring is at most
\* twice the configured top-N of the ingestion settings, whatever the push
\* count.
C25_BatchWithinTopN ==
    \A r \in Runs :
        /\ Len(run[r].toProcess) <= BATCH_FACTOR * run[r].cfg.topN
        /\ Len(run[r].results) <= Len(run[r].toProcess)

\* a run that fetched more new items than it scores, and has scored its batch
C25_Witness ==
    \E r \in Runs :
        /\ run[r].pc = "select"
        /\ Len(run[r].results) = BATCH_FACTOR * run[r].cfg.topN
        /\ Len(run[r].results) > BATCH_FACTOR * run[r].cfg.pushCount

----------------------------------------------------------------------------
(* splitLongText on its own, for windows of several lengths                 *)

\* window lengths (maxLen), scaled like the texts
WindowLens == {2, 3, 4}

\* text: string, every text up to the bound; the bodies that
\* formatFullTextMessages passes are among them
Texts == SeqsUpTo(Chars, MaxContent)

\* splitLongText(text, maxLen) is called and returns
SplitText ==
    /\ page.pc = "call"
    /\ page' = [page EXCEPT !.pc = "done",
                            !.parts = splitLongText(page.text, page.maxLen)]
    /\ UNCHANGED <<isDigestRunning, config, seenFile, articlesFile, historyFile,
                   run, nextId, triggers, faulted, llm, tr, cb, sched, agg>>

InitSplit ==
    /\ isDigestRunning = FALSE
    /\ config = NoCfg
    /\ seenFile = <<>>
    /\ articlesFile = <<>>
    /\ historyFile = <<>>
    /\ run = [r \in Runs |-> IdleFrame]
    /\ nextId = 1
    /\ triggers = 0
    /\ faulted = FALSE
    /\ llm = LLMIdle
    /\ \E t \in Texts, w \in WindowLens :
          page = [pc |-> "call", text |-> t, maxLen |-> w, parts |-> <<>>]
    /\ tr = Unused /\ cb = Unused /\ sched = Unused /\ agg = Unused

NextSplit == SplitText

SpecSplit == InitSplit /\ [][NextSplit]_vars

\* the 0-based positions at or before the limit at which sub starts
Hits(s, sub, limit) ==
    {i \in 0..limit : i + Len(sub) <= Len(s) /\ SubSeq(s, i + 1, i + Len(sub)) = sub}

\* those of them that do not lie in the first half of the window
LateHits(s, sub, limit) == {i \in Hits(s, sub, limit) : 2 * i >= limit}

Largest(S) == CHOOSE i \in S : \A j \in S : i >= j

\* the split point the tiers ask for
TierCut(s, limit) ==
    IF LateHits(s, <<"LF", "LF">>, limit) # {}
    THEN Largest(LateHits(s, <<"LF", "LF">>, limit))
    ELSE IF LateHits(s, <<"DOT">>, limit) # {}
    THEN Largest(LateHits(s, <<"DOT">>, limit))
    ELSE IF LateHits(s, <<"SP">>, limit) # {}
    THEN Largest(LateHits(s, <<"SP">>, limit))
    ELSE limit

\* parts is what cutting s again and again at the tiers' split point leaves
RECURSIVE CutsFollowTiers(_, _, _)
CutsFollowTiers(s, parts, limit) ==
    IF Len(s) <= limit
    THEN parts = IF s = <<>> THEN <<>> ELSE <<s>>
    ELSE /\ parts # <<>>
         /\ parts[1] = Take(s, TierCut(s, limit))
         /\ CutsFollowTiers(Trim(Drop(s, Len(parts[1]))), Tail(parts), limit)

C39_SegmentsNonEmptyWithinLimit ==
    page.pc = "done" =>
        /\ \A i \in 1..Len(page.parts) :
              page.parts[i] # <<>> /\ Len(page.parts[i]) <= page.maxLen
        /\ Len(page.text) <= page.maxLen => page.parts = <<page.text>>

\* C39 amended: splitLongText returns for every text and every limit of 2 or
\* more, after no more iterations than the text has characters; every
\* segment it returns is at most the limit in length and, unless the text is
\* empty, non-empty; a text no longer than the limit comes back as a single
\* unchanged segment.
C39_SegmentsWithinLimit ==
    page.pc = "done" =>
        /\ \A i \in 1..Len(page.parts) : Len(page.parts[i]) <= page.maxLen
        /\ page.text # <<>> =>
              /\ \A i \in 1..Len(page.parts) : page.parts[i] # <<>>
              /\ Len(page.parts) <= Len(page.text)
        /\ Len(page.text) <= page.maxLen => page.parts = <<page.text>>

\* C39 witness: a text of three windows' length and more is cut into three
\* segments, the first at a space short of the limit
C39_Witness ==
    /\ page.pc = "done"
    /\ Len(page.text) > 2 * page.maxLen
    /\ Len(page.parts) = 3
    /\ Len(page.parts[1]) < page.maxLen
    /\ \A i \in 1..3 : page.parts[i] # <<>> /\ Len(page.parts[i]) <= page.maxLen

----------------------------------------------------------------------------
(* Claims on the full-text messages                                          *)

\* the full text as a single message is over the limit
OverLimit ==
    FullTextLen(page.article, FormattedContent(page.article.translatedContent))
        > MSG_LIMIT

\* C28: when the rendered full text is over the limit, the texts carry the
\* header exactly once, in the first of them, and the footer exactly once, in
\* the last of them, also when the body alone makes a single part.
C28_HeaderFirstFooterLast ==
    (page.pc = "done" /\ OverLimit) =>
        LET n == Len(page.texts)
        IN /\ n >= 1
           /\ \A i \in 1..n : page.texts[i].header <=> i = 1
           /\ \A i \in 1..n : page.texts[i].footer <=> i = n

\* C29: of the messages of a full-text send, one message or several, the last
\* carries the link button, and the back button for the stored summary
\* message, and no other message carries a button.
C29_ButtonsOnLastMessage ==
    page.pc = "sent" =>
        LET n == Len(page.sent)
        IN /\ n >= 1
           /\ page.sent[n].markup.link
           /\ page.sent[n].markup.back <=> page.article.summaryMsgId # 0
           /\ \A i \in 1..(n - 1) : page.sent[i].markup = NoMarkup

----------------------------------------------------------------------------
(* Claims on the order of the read branch                                    *)

\* C30: when the translation succeeds the handler first persists the
\* translated content, then deletes the loading notice (if one was sent),
\* then sends the full text: the step that ends the translation writes the
\* content to articles.json, the send starts only from there or from the
\* finished delete, and no handler is sending a full text while the persisted
\* article has no translation.
C30_PersistDeleteSend ==
    [][\A h \in Handlers :
          LET f == cb.h[h]
              g == cb'.h[h]
          IN /\ (f.pc = "translating" /\ g.pc \in {"deleteLoading", "sendFull"})
                   => /\ g.articles[f.id].translatedContent # 0
                      /\ articlesFile'[f.id].translatedContent
                            = g.articles[f.id].translatedContent
                      /\ g.pc = "sendFull" <=> ~f.loadingMsgId
             /\ (g.pc = "sendFull" /\ f.pc # "sendFull")
                   => \/ f.pc = "deleteLoading"
                      \/ f.pc = "translating" /\ ~f.loadingMsgId
                      \/ f.pc = "ackLoading" /\ ~NeedsTranslation(f.articles[f.id])
             /\ g.pc = "sendFull"
                   => articlesFile'[g.id].translatedContent # 0
      ]_vars

\* a handler that translated and deleted its loading notice is sending the
\* full text of the article whose translation is on disk
C30_Witness ==
    \E h \in Handlers :
        /\ cb.h[h].pc = "sendFull" /\ cb.h[h].invoked /\ cb.h[h].loadingMsgId
        /\ articlesFile[cb.h[h].id].translatedContent
              = cb.h[h].articles[cb.h[h].id].translatedContent

----------------------------------------------------------------------------
(* Claims on the single-flight flag                                          *)

\* C34: a started run that returns, whatever its outcome (success, no new
\* articles, configuration error, caught exception), leaves the flag cleared:
\* the flag is set only while a run is in progress, and a trigger that arrives
\* when no run is in progress is admitted.
C34_FlagClearedOnReturn ==
    [][\A r \in Runs :
          /\ (run[r].pc # "done" /\ run'[r].pc = "done"
                 /\ run'[r].outcome.kind # "running")
               => ~isDigestRunning'
          /\ isDigestRunning' => \E q \in Runs : run'[q].pc \in ActivePcs
          /\ (run[r].pc = "idle" /\ run'[r].pc # "idle" /\ ActiveRuns = {})
               => run'[r].outcome.kind # "running"
      ]_vars

\* a run ended with a caught exception and the next trigger was admitted
C34_Witness ==
    \E r \in Runs, q \in Runs :
        /\ r < q /\ run[r].outcome.kind = "error"
        /\ run[q].pc = "fetch"

\* C35: a trigger rejected as 'already running' changes nothing: the flag
\* stays set, the run in progress goes on untouched, the invocation has loaded
\* no file and sent nothing, and seen.json, articles.json and history.json
\* are what they were.
C35_RejectedTriggerIsInert ==
    [][\A r \in Runs :
          (run[r].pc = "idle" /\ run'[r].outcome.kind = "running")
              => /\ isDigestRunning /\ isDigestRunning'
                 /\ UNCHANGED <<config, seenFile, articlesFile, historyFile,
                                nextId, faulted>>
                 /\ run'[r].seen = <<>> /\ run'[r].articles = <<>>
                 /\ run'[r].newArticles = <<>> /\ run'[r].outcome.count = 0
                 /\ \A q \in Runs \ {r} : run'[q] = run[q]
                 /\ \E q \in Runs \ {r} : run'[q].pc \in ActivePcs
      ]_vars

\* a trigger was rejected while a run was pushing, and that run has since
\* completed with its articles
C35_Witness ==
    \E r \in Runs, q \in Runs :
        /\ r < q /\ run[q].outcome.kind = "running"
        /\ run[r].outcome.kind = "ok" /\ run[r].outcome.count = 2

----------------------------------------------------------------------------
(* Claims on what a run leaves behind                                        *)

\* C32: a write of articles.json, seen.json or history.json that fails while
\* the run persists does not abort the run: the run returns the success
\* outcome with the number of articles it pushed.
C32_SaveFailureDoesNotAbort ==
    [][\A r \in Runs :
          (run[r].pc = "persist" /\ run'[r].pc = "done")
              => /\ run'[r].outcome.success
                 /\ run'[r].outcome.count = Len(run[r].newArticles)
      ]_vars

\* C36: when a run ends, also one that fails in the push loop or while it
\* persists, every article it sent a summary for is in the persisted
\* articles.json and its link is in the persisted seen.json.
C36_SentArticlesPersisted ==
    [][\A r \in Runs :
          (Active(r) /\ run'[r].pc = "done")
              => \A k \in 1..Len(run[r].newArticles) :
                    LET a == run[r].newArticles[k]
                    IN /\ a.id \in DOMAIN articlesFile'
                       /\ a.link \in Range(seenFile')
      ]_vars

----------------------------------------------------------------------------
(* Ingestion: fetchRSS and fetchAllFeeds                                     *)
(*                                                                          *)
(* An RSSItem is kept as its source, its position in the source's payload   *)
(* and its pubDate; CUTOFF is Date.now() - hours, taken before the fetches. *)

MaxFeedItems == 2             \* items in one source's payload

Sources == 1..3               \* the entries of rss-feeds.json, in file order
PubTimes == {0, 1, 2}         \* pubDate.getTime(): 0 is not after the cutoff
CUTOFF == 0

\* what a source answers with: its items that have a title and a link
Payloads(src) ==
    {[k \in 1..n |-> [source |-> src, n |-> k, pub |-> pubs[k]]] :
        n \in 0..MaxFeedItems, pubs \in [1..MaxFeedItems -> PubTimes]}

\* a promise settles: fulfilled with items, or rejected
Fulfilled(items) == [rejected |-> FALSE, items |-> items]
Rejected == [rejected |-> TRUE, items |-> <<>>]

\* mutant: fetchRSS has no catch, a failed fetch rejects
fetchRSS_NoCatch(ok, payload) == IF ok THEN Fulfilled(payload) ELSE Rejected

\* fetchRSS: the parsed items, or [] from the catch when fetch or res.text()
\* rejects
fetchRSS(ok, payload) == IF ok THEN Fulfilled(payload) ELSE Fulfilled(<<>>)

\* results.flat()
RECURSIVE Flat(_)
Flat(results) == IF results = <<>> THEN <<>> ELSE results[1] \o Flat(Tail(results))

\* .sort((a, b) => b.pubDate.getTime() - a.pubDate.getTime()): newest first,
\* items of equal date in their order of arrival
RECURSIVE InsertByDate(_, _)
InsertByDate(sorted, item) ==
    IF sorted = <<>> THEN <<item>>
    ELSE IF sorted[1].pub >= item.pub
         THEN <<sorted[1]>> \o InsertByDate(Tail(sorted), item)
         ELSE <<item>> \o sorted

RECURSIVE SortByDate(_)
SortByDate(items) ==
    IF items = <<>> THEN <<>>
    ELSE InsertByDate(SortByDate(SubSeq(items, 1, Len(items) - 1)), items[Len(items)])

\* the enabled sources in file order: getRSSFeeds().filter(f => f.enabled)
RECURSIVE EnabledFrom(_, _)
EnabledFrom(src, enabled) ==
    IF src \notin Sources THEN <<>>
    ELSE (IF src \in enabled THEN <<src>> ELSE <<>>) \o EnabledFrom(src + 1, enabled)

\* await Promise.all(...) and what follows it: rejected if one of the
\* promises rejected, else the flattened results filtered and sorted
fetchAllFeeds(order, settled) ==
    IF \E k \in 1..Len(order) : settled[order[k]].rejected
    THEN Rejected
    ELSE Fulfilled(
            SortByDate(SelectSeq(Flat([k \in 1..Len(order) |-> settled[order[k]].items]),
                                 LAMBDA item : item.pub > CUTOFF)))

aggFrame == <<isDigestRunning, config, seenFile, articlesFile, historyFile, run,
              nextId, triggers, faulted, llm, tr, page, cb, sched>>

\* the fetchRSS promise of one enabled source settles: with the source's
\* answer, or after a failure of the fetch
FeedSettles(src) ==
    /\ agg.pc = "fetching"
    /\ src \in agg.enabled /\ src \notin DOMAIN agg.settled
    /\ \E ok \in BOOLEAN, payload \in Payloads(src) :
         /\ ~ok => payload = <<>>
         /\ agg' = [agg EXCEPT
                      !.settled = [x \in DOMAIN @ \cup {src} |->
                                      IF x = src THEN fetchRSS(ok, payload) ELSE @[x]],
                      !.answered = IF ok THEN @ \cup {src} ELSE @,
                      !.payloads = IF ok THEN @ \o payload ELSE @]
    /\ UNCHANGED aggFrame

\* every promise has settled: Promise.all settles and fetchAllFeeds returns
AllSettled ==
    /\ agg.pc = "fetching"
    /\ DOMAIN agg.settled = agg.enabled
    /\ agg' = [agg EXCEPT !.pc = "done",
                          !.out = fetchAllFeeds(EnabledFrom(1, agg.enabled),
                                                agg.settled)]
    /\ UNCHANGED aggFrame

InitFeeds ==
    /\ isDigestRunning = FALSE
    /\ config = NoCfg
    /\ seenFile = <<>>
    /\ articlesFile = <<>>
    /\ historyFile = <<>>
    /\ run = [r \in Runs |-> IdleFrame]
    /\ nextId = 1
    /\ triggers = 0
    /\ faulted = FALSE
    /\ llm = LLMIdle
    /\ \E enabled \in SUBSET Sources :
          agg = [pc |-> "fetching", enabled |-> enabled, settled |-> <<>>,
                 answered |-> {}, payloads |-> <<>>, out |-> Fulfilled(<<>>)]
    /\ tr = Unused /\ page = Unused /\ cb = Unused /\ sched = Unused

NextFeeds ==
    \/ \E src \in Sources : FeedSettles(src)
    \/ AllSettled

SpecFeeds == InitFeeds /\ [][NextFeeds]_vars

\* C33: a source whose fetch fails gives an empty result for that source
\* only: whichever enabled sources fail and in whatever order the fetches
\* settle, the aggregate completes and holds exactly the items, newer than
\* the cutoff, that the enabled sources which answered sent, each once,
\* newest first.
C33_FailureIsolatedPerSource ==
    agg.pc = "done" =>
        LET out == agg.out.items
        IN /\ ~agg.out.rejected
           /\ {out[k] : k \in 1..Len(out)}
                 = {agg.payloads[k] : k \in {j \in 1..Len(agg.payloads) :
                                               agg.payloads[j].pub > CUTOFF}}
           /\ \A j, k \in 1..Len(out) : j # k => out[j] # out[k]
           /\ \A k \in 1..Len(out) : out[k].source \in agg.enabled \cap agg.answered
           /\ \A k \in 1..(Len(out) - 1) : out[k].pub >= out[k + 1].pub

\* three sources, two enabled; one of them failed, the other one's in-window
\* items are the aggregate
C33_Witness ==
    /\ agg.pc = "done"
    /\ Cardinality(agg.enabled) = 2 /\ Cardinality(agg.answered) = 1
    /\ Len(agg.out.items) = 2

----------------------------------------------------------------------------
(* Claims on the article store under concurrent writers                      *)

\* C37: an article that is in the persisted store stays in it (no article is
\* old enough to be evicted here): neither a callback handler that loaded the
\* store before a run saved its articles, nor the run itself, writes back a
\* snapshot that lacks it.
C37_PersistedArticlesStay ==
    [][\A id \in DOMAIN articlesFile : id \in DOMAIN articlesFile']_vars

----------------------------------------------------------------------------
(* Claims on the acknowledgement of callback events                         *)

\* C40: every read_ and back_ callback event is acknowledged exactly once on
\* every path through the handler: article missing, article present, deep
\* link available, private chat, chat lookup failed, message id that does
\* not parse; the handler never makes a second answerCallbackQuery call, has
\* made its one call once it is past the chat lookup, and on a read_ event
\* has made it, and had it answered, before translateFullText is called.
C40_AcknowledgedOnce ==
    [][\A h \in Handlers :
          LET f == cb.h[h]
              g == cb'.h[h]
          IN g.kind \in {"read", "back"} =>
               /\ Len(g.acks) <= 1
               /\ g.pc # "getChat" => Len(g.acks) = 1
               /\ (g.invoked /\ ~f.invoked) =>
                     f.acks = <<"loading">> /\ f.pc # "ackLoading"
      ]_vars

\* C40 witness: a back_ event was answered with a deep link and its handler
\* returned, while the handler of a read_ event, acknowledged once, is
\* translating
C40_Witness ==
    \E h \in Handlers, k \in Handlers :
        /\ cb.h[h].kind = "back" /\ cb.h[h].outcome = "returned"
        /\ cb.h[h].acks = <<"url">>
        /\ cb.h[k].kind = "read" /\ cb.h[k].pc = "translating"
        /\ cb.h[k].acks = <<"loading">>

====
